---------------------------- MODULE Spec2Model ----------------------------
(***************************************************************************)
(* Model of the typing-session engine of the PyQt5 desktop typing test     *)
(* (src/typing_test_gui.py, class TypingTestGUI) and of the two terminal   *)
(* tests (src/terminal_typing_test.py and src/index.py).                   *)
(*                                                                         *)
(* The window object is one record, gui: the instance attributes and the   *)
(* widget properties the handlers read or write.  Every slot is an         *)
(* operator from a window record to a window record; an action applies one *)
(* slot to the current window.  Qt delivers signals synchronously, so a    *)
(* slot that calls QTextEdit.clear() runs on_text_changed inside itself    *)
(* (clear() and setPlainText() emit textChanged unconditionally); the      *)
(* operators call each other exactly as the slots do.  The only place a    *)
(* handler is suspended is QMessageBox.information, which blocks in a      *)
(* nested event loop until the user dismisses the dialog: the model keeps  *)
(* the open dialogs in gui.modal and runs the rest of the handler in       *)
(* DismissDialog.                                                          *)
(*                                                                         *)
(* show_results reads stats_history and opens a dialog with what it has    *)
(* computed; the model keeps what the dialog shows in gui.stats_view while *)
(* the dialog is open.                                                     *)
(*                                                                         *)
(* A terminal test is one record, term: the position in the loop of the    *)
(* function and its local variables.  The launcher runs either the window  *)
(* or a terminal test, never both.  The menu loop of the launcher          *)
(* (src/launcher.py) is modelled on its own, SpecLauncher, with the        *)
(* program it calls taken by the way the call comes back.                  *)
(*                                                                         *)
(* Abstractions, all named below:                                          *)
(*  - the sentence bank is two short sentences over two letters,           *)
(*    non-empty and without leading or trailing whitespace like the        *)
(*    fourteen sentences of the program;                                   *)
(*  - time is counted on an integer grid and read relative to the present; *)
(*    the combo box limits 30 s,                                           *)
(*    60 s, 2 min and 5 min are 1, 2, 4 and 10 times TicksPer30s ticks     *)
(*    (the program is the case TicksPer30s = 30);                          *)
(*  - Python floats are exact rationals [n, d] in lowest terms; a label    *)
(*    formatted with :.1f holds an integer number of tenths.               *)
(***************************************************************************)
EXTENDS Integers, Sequences, FiniteSets, TLC

\* gui: the window.  run_log is a history variable, the sentences completed
\* since the timed run was started; no slot reads it.  term: the terminal test.
VARIABLES gui, run_log, term

vars == <<gui, run_log, term>>

(***************************** bounds **************************************)
\* Longest time a round is let run, in units of the clock's grid.
MaxElapsed == 1
\* Most records the statistics history is allowed to reach.
MaxRounds == 1
\* The same, where the clock stands still (SpecLog).
MaxLogRounds == 2
\* Most sentences folded into one timed run.
MaxRunSentences == 2
\* Timer ticks that stand for 30 seconds of the countdown.
TicksPer30s == 1
\* Longest time since the first input-change when one evaluation is looked at
\* alone (SpecEval).
MaxEvalElapsed == 7
\* The grid of the terminal tests' clock, and the longest time a line takes on it.
TermTicksPerSecond == 2
MaxTermTicks == 3
\* Most rounds of one terminal test.
MaxTermRounds == 2
\* How far around a threshold of the rating, in tenths, the inputs are drawn.
TierSpread == 5
\* Most records of a history the statistics view is applied to (SpecView).
MaxHistory == 6
\* The menu of the launcher is shown at most this many times.
MaxMenus == 3

(************************** strings and numbers ****************************)
Alphabet == {"a", "b"}

\* str.strip() with no argument removes whitespace at both ends.
Whitespace == {" "}

\* self.sentences: fixed, non-empty, every sentence non-empty and untrimmed = trimmed.
Sentences == << <<"a", "b">>, <<"b">> >>

Bank == {Sentences[i] : i \in DOMAIN Sentences}

\* The texts an input-change event carries: every text up to one character longer
\* than the longest sentence, so that a text can differ from a target at any
\* position and can run past its end.
LongestSentence == CHOOSE n \in {Len(s) : s \in Bank} : \A s \in Bank : Len(s) <= n

Texts == UNION {[1..k -> Alphabet] : k \in 0..(LongestSentence + 1)}

\* None: the attribute holds no time.  time.time() is never 0, so 0 is free.
None == 0

\* The program uses time.time() only in differences, so the model reads the clock
\* relative to the present: time.time() returns Now at the start of every event,
\* and time passing moves a stored time one unit into the past (Past).  Now is
\* late enough for no stored time, however old the bounds let it get, to be None.
Now == MaxElapsed + MaxEvalElapsed + 2

Past(g, dt) == [g EXCEPT !.start_time = IF @ = None THEN None ELSE @ - dt]

Elapsed(g) == IF g.start_time = None THEN 0 ELSE Now - g.start_time

Min(a, b) == IF a < b THEN a ELSE b

SetMin(S) == CHOOSE x \in S : \A y \in S : x <= y

Abs(x) == IF x < 0 THEN -x ELSE x

RECURSIVE Gcd(_, _)
Gcd(a, b) == IF b = 0 THEN a ELSE Gcd(b, a % b)

\* A Python float holding the quotient n/d (d > 0), as a fraction in lowest terms.
Rat(n, d) ==
    LET k == Gcd(Abs(n), d)
    IN  [n |-> n \div k, d |-> d \div k]

RatAdd(p, q) == Rat(p.n * q.d + q.n * p.d, p.d * q.d)

\* p / q for q > 0.
RatDiv(p, q) == Rat(p.n * q.d, p.d * q.n)

\* f"{x:.1f}": the nearest tenth, a tie going to the even tenth; the result in tenths.
Format1(p) ==
    LET x10 == p.n * 10
        lo == x10 \div p.d
        r2 == 2 * (x10 % p.d)
    IN  IF r2 > p.d \/ (r2 = p.d /\ lo % 2 = 1) THEN lo + 1 ELSE lo

\* float(label.text()) of a label that holds tenths.
ParseLabel(tenths) == Rat(tenths, 10)

\* int(x) for x >= 0.
Floor(p) == p.n \div p.d

RECURSIVE LStrip(_)
LStrip(s) == IF s # <<>> /\ Head(s) \in Whitespace THEN LStrip(Tail(s)) ELSE s

RECURSIVE RStrip(_)
RStrip(s) ==
    IF s # <<>> /\ s[Len(s)] \in Whitespace THEN RStrip(SubSeq(s, 1, Len(s) - 1)) ELSE s

Strip(s) == RStrip(LStrip(s))

IsPrefix(p, s) == Len(p) <= Len(s) /\ SubSeq(s, 1, Len(p)) = p


(****************************** the window *********************************)
\* No statistics dialog is open.
NoView == [open |-> FALSE]

\* The statements of __init__ before self.new_round().
Constructed ==
    [ current_sentence |-> <<>>,
      start_time |-> None,
      round_number |-> 1,
      stats_history |-> <<>>,
      timed_mode |-> FALSE,
      time_limit |-> 2 * TicksPer30s,
      remaining_time |-> 2 * TicksPer30s,
      timer_active |-> FALSE,
      \* the timed_* attributes exist only once start_timed_mode has run
      timed_defined |-> FALSE,
      timed_sentences_completed |-> 0,
      timed_chars_typed |-> 0,
      timed_words_typed |-> Rat(0, 1),
      \* typing_input: toPlainText(), isEnabled(), isVisible()
      text |-> <<>>,
      enabled |-> TRUE,
      input_visible |-> TRUE,
      \* timed_start_button and time_limit_combo: setVisible
      start_visible |-> FALSE,
      combo_visible |-> FALSE,
      \* progress_bar value; wpm_label, cps_label and time_label in tenths.
      \* timer_label is written and never read: the model does not carry it.
      progress |-> 0,
      wpm_label |-> 0,
      time_label |-> 0,
      cps_label |-> 0,
      \* the QMessageBox dialogs that are open, innermost last
      modal |-> <<>>,
      \* what the statistics dialog shows while it is open
      stats_view |-> NoView,
      \* an exception left a slot: PyQt5 aborts the process
      fault |-> FALSE,
      \* history: on_text_changed has been entered while a handler that emitted
      \* textChanged was still executing; no slot reads it
      reentered |-> FALSE,
      \* history: on_text_changed has compared a text with a target that is
      \* empty or is no sentence of the bank; no slot reads it
      off_bank |-> FALSE ]

\* A faulty truncation, for C16: at a wrong character it also gives up the last
\* right one.
TruncateOneShort(user_text, target_text) ==
    LET n == Min(Len(user_text), Len(target_text))
        wrong == {i \in 1..n : user_text[i] # target_text[i]}
        cut == IF wrong # {}
               THEN SubSeq(target_text, 1, SetMin(wrong) - 2)
               ELSE user_text
    IN  IF Len(cut) > Len(target_text) THEN target_text ELSE cut

\* A faulty truncation, for C17: it takes out the first wrong character and
\* keeps what follows it.
TruncateDropsWrong(user_text, target_text) ==
    LET n == Min(Len(user_text), Len(target_text))
        wrong == {i \in 1..n : user_text[i] # target_text[i]}
        cut == IF wrong # {}
               THEN SubSeq(user_text, 1, SetMin(wrong) - 1)
                        \o SubSeq(user_text, SetMin(wrong) + 1, Len(user_text))
               ELSE user_text
    IN  IF Len(cut) > Len(target_text)
        THEN SubSeq(cut, 1, Len(target_text))
        ELSE cut

\* A faulty truncation, for C1: it cuts at the first wrong character and forgets
\* to cut a text that runs past the end of the target.
TruncateUncapped(user_text, target_text) ==
    LET n == Min(Len(user_text), Len(target_text))
        wrong == {i \in 1..n : user_text[i] # target_text[i]}
    IN  IF wrong # {}
        THEN SubSeq(target_text, 1, SetMin(wrong) - 1)
        ELSE user_text

\* Lines 614-636 (and their copy 578-600): cut the text at the first position that
\* differs from the target, then cut a text longer than the target to the target.
Truncate(user_text, target_text) ==
    LET n == Min(Len(user_text), Len(target_text))
        wrong == {i \in 1..n : user_text[i] # target_text[i]}
        cut == IF wrong # {}
               THEN SubSeq(target_text, 1, SetMin(wrong) - 1)
               ELSE user_text
    IN  IF Len(cut) > Len(target_text) THEN target_text ELSE cut

\* int(min(100, (len(user_text) / len(target_text)) * 100))
TypingProgress(user_text, target_text) ==
    Min(100, Floor(Rat(100 * Len(user_text), Len(target_text))))

\* int(((time_limit - remaining_time) / time_limit) * 100)
TimerProgress(time_limit, remaining_time) ==
    Floor(Rat(100 * (time_limit - remaining_time), time_limit))

\* A faulty completion, for C5: it leaves the input box enabled.
complete_round_enabled(g, elapsed_time, wpm) ==
    LET chars_per_second ==
            IF elapsed_time > 0 THEN Rat(Len(g.text), elapsed_time) ELSE Rat(0, 1)
        stats == [round |-> g.round_number,
                  time |-> elapsed_time,
                  wpm |-> wpm,
                  cps |-> chars_per_second]
    IN  [g EXCEPT !.stats_history = Append(@, stats),
                  !.modal = Append(@, "sentence")]

\* The first half of complete_round, up to the QMessageBox that blocks it.
complete_round(g, elapsed_time, wpm) ==
    LET chars_per_second ==
            IF elapsed_time > 0 THEN Rat(Len(g.text), elapsed_time) ELSE Rat(0, 1)
        stats == [round |-> g.round_number,
                  time |-> elapsed_time,
                  wpm |-> wpm,
                  cps |-> chars_per_second]
    IN  [g EXCEPT !.enabled = FALSE,
                  !.stats_history = Append(@, stats),
                  !.modal = Append(@, "sentence")]

\* A faulty fold, for C10: it counts the key that ends the sentence as well.
fold_sentence_newline(g) ==
    [g EXCEPT !.timed_sentences_completed = @ + 1,
              !.timed_chars_typed = @ + Len(g.text) + 1,
              !.timed_words_typed = RatAdd(@, Rat(Len(g.text), 5))]

\* The sentence completed in a timed run is added to the run's counters (604-606).
fold_sentence(g) ==
    [g EXCEPT !.timed_sentences_completed = @ + 1,
              !.timed_chars_typed = @ + Len(g.text),
              !.timed_words_typed = RatAdd(@, Rat(Len(g.text), 5))]

RECURSIVE on_text_changed(_, _, _, _)
RECURSIVE load_new_sentence(_, _, _)

\* A clear() that emits nothing, for C21: the box is emptied and the slot is not
\* run.
clear_quiet(g, t, pick) == [g EXCEPT !.text = <<>>]

\* QTextEdit.clear(): the text becomes empty and textChanged is emitted, which
\* runs the connected slot before clear() returns, and so before the handler
\* that called clear() has finished.
clear(g, t, pick) ==
    on_text_changed([g EXCEPT !.text = <<>>, !.reentered = TRUE], t, t, pick)

\* The slot of typing_input.textChanged.  t0 and t1 are the two readings of
\* time.time() (lines 610 and 639); pick is what random.choice returns if asked.
\* With an empty target the text is cut to nothing and the division of line 601
\* (637) raises ZeroDivisionError.
on_text_changed(g, t0, t1, pick) ==
    IF g.timed_mode
    THEN IF ~g.timer_active \/ ~g.enabled
         THEN g
         ELSE IF g.current_sentence = <<>>
         THEN [g EXCEPT !.text = <<>>, !.fault = TRUE, !.off_bank = TRUE]
         ELSE LET user_text == Truncate(g.text, g.current_sentence)
                  g1 == [g EXCEPT !.text = user_text,
                                  !.progress =
                                      TypingProgress(user_text, g.current_sentence),
                                  !.off_bank = @ \/ g.current_sentence \notin Bank]
              IN  IF Strip(user_text) = Strip(g.current_sentence)
                  THEN load_new_sentence(fold_sentence(g1), t1, pick)
                  ELSE g1
    ELSE LET start == IF g.start_time = None THEN t0 ELSE g.start_time
             user_text == Truncate(g.text, g.current_sentence)
             elapsed_time == t1 - start
             n == Len(user_text)
             wpm == RatDiv(Rat(n, 5), Rat(elapsed_time, 60))
             g1 == [g EXCEPT
                      !.start_time = start,
                      !.text = user_text,
                      !.progress = TypingProgress(user_text, g.current_sentence),
                      !.time_label = Format1(Rat(elapsed_time, 1)),
                      !.wpm_label = IF elapsed_time > 0 THEN Format1(wpm) ELSE @,
                      !.cps_label = IF elapsed_time > 0
                                    THEN Format1(Rat(n, elapsed_time)) ELSE @,
                      !.off_bank = @ \/ g.current_sentence \notin Bank]
         IN  IF g.current_sentence = <<>>
             THEN [g EXCEPT !.start_time = start, !.text = <<>>,
                            !.fault = TRUE, !.off_bank = TRUE]
             ELSE IF Strip(user_text) = Strip(g.current_sentence)
             THEN complete_round(g1, elapsed_time, ParseLabel(g1.wpm_label))
             ELSE g1

\* A faulty load, for C11: the new target is shown and the typed text is left
\* in the box.
load_new_sentence_keep(g, t, pick) ==
    [g EXCEPT !.current_sentence = pick]

load_new_sentence(g, t, pick) ==
    clear([g EXCEPT !.current_sentence = pick], t, pick)

\* A faulty new round, for C29: the live values are set to zero before the box
\* is cleared, and the slot that clear() runs writes them again.
new_round_zeroes_first(g, t, pick) ==
    LET g1 == IF ~g.timed_mode THEN [g EXCEPT !.current_sentence = pick] ELSE g
        g2 == clear([g1 EXCEPT !.wpm_label = 0,
                               !.time_label = 0,
                               !.cps_label = 0], t, pick)
    IN  [g2 EXCEPT !.enabled = TRUE,
                   !.start_time = None,
                   !.progress = 0,
                   !.timer_active = FALSE,
                   !.remaining_time = IF g2.timed_mode THEN g2.time_limit ELSE @]

\* A faulty new round, for C28: the box is cleared before the target is drawn.
new_round_clears_first(g, t, pick) ==
    LET g1 == clear(g, t, pick)
        g2 == IF ~g1.timed_mode THEN [g1 EXCEPT !.current_sentence = pick] ELSE g1
    IN  [g2 EXCEPT !.enabled = TRUE,
                   !.start_time = None,
                   !.progress = 0,
                   !.timer_active = FALSE,
                   !.remaining_time = IF g2.timed_mode THEN g2.time_limit ELSE @,
                   !.wpm_label = 0,
                   !.time_label = 0,
                   !.cps_label = 0]

\* A faulty new round, for C13: the start time of the round before is kept.
new_round_keeps_clock(g, t, pick) ==
    LET g1 == IF ~g.timed_mode THEN [g EXCEPT !.current_sentence = pick] ELSE g
        g2 == clear(g1, t, pick)
    IN  [g2 EXCEPT !.enabled = TRUE,
                   !.progress = 0,
                   !.timer_active = FALSE,
                   !.remaining_time = IF g2.timed_mode THEN g2.time_limit ELSE @,
                   !.wpm_label = 0,
                   !.time_label = 0,
                   !.cps_label = 0]

new_round(g, t, pick) ==
    LET g1 == IF ~g.timed_mode THEN [g EXCEPT !.current_sentence = pick] ELSE g
        g2 == clear(g1, t, pick)
    IN  [g2 EXCEPT !.enabled = TRUE,
                   !.start_time = None,
                   !.progress = 0,
                   !.timer_active = FALSE,
                   !.remaining_time = IF g2.timed_mode THEN g2.time_limit ELSE @,
                   !.wpm_label = 0,
                   !.time_label = 0,
                   !.cps_label = 0]

\* A faulty reset, for C35: the timer is left running.
reset_input_ticking(g, t, pick) ==
    LET g1 == clear(g, t, pick)
    IN  [g1 EXCEPT !.start_time = None,
                   !.progress = 0,
                   !.remaining_time = IF g1.timed_mode THEN g1.time_limit ELSE @]

\* A faulty reset, for C34: the reset counts as a round.
reset_input_counts(g, t, pick) ==
    LET g1 == clear(g, t, pick)
    IN  [g1 EXCEPT !.start_time = None,
                   !.progress = 0,
                   !.timer_active = FALSE,
                   !.remaining_time = IF g1.timed_mode THEN g1.time_limit ELSE @,
                   !.round_number = @ + 1]

reset_input(g, t, pick) ==
    LET g1 == clear(g, t, pick)
    IN  [g1 EXCEPT !.start_time = None,
                   !.progress = 0,
                   !.timer_active = FALSE,
                   !.remaining_time = IF g1.timed_mode THEN g1.time_limit ELSE @]

\* A faulty switch, for C15: the timer is left running.
switch_mode_ticking(g, timed_mode, t, pick) ==
    LET g1 == [g EXCEPT !.timed_mode = timed_mode]
        g2 == IF timed_mode
              THEN [g1 EXCEPT !.start_visible = TRUE,
                              !.input_visible = FALSE,
                              !.combo_visible = TRUE,
                              !.remaining_time = g1.time_limit,
                              !.progress = 0]
              ELSE new_round([g1 EXCEPT !.start_visible = FALSE,
                                        !.input_visible = TRUE,
                                        !.combo_visible = FALSE], t, pick)
        g3 == clear(g2, t, pick)
    IN  [g3 EXCEPT !.start_time = None,
                   !.enabled = IF ~timed_mode THEN TRUE ELSE @]

\* A faulty switch, for C14: the countdown is not set back to the limit.
switch_mode_no_rearm(g, timed_mode, t, pick) ==
    LET g1 == [g EXCEPT !.timed_mode = timed_mode]
        g2 == IF timed_mode
              THEN [g1 EXCEPT !.start_visible = TRUE,
                              !.input_visible = FALSE,
                              !.combo_visible = TRUE,
                              !.progress = 0]
              ELSE new_round([g1 EXCEPT !.start_visible = FALSE,
                                        !.input_visible = TRUE,
                                        !.combo_visible = FALSE], t, pick)
        g3 == clear([g2 EXCEPT !.timer_active = FALSE], t, pick)
    IN  [g3 EXCEPT !.start_time = None,
                   !.enabled = IF ~timed_mode THEN TRUE ELSE @]

switch_mode(g, timed_mode, t, pick) ==
    LET g1 == [g EXCEPT !.timed_mode = timed_mode]
        g2 == IF timed_mode
              THEN [g1 EXCEPT !.start_visible = TRUE,
                              !.input_visible = FALSE,
                              !.combo_visible = TRUE,
                              !.remaining_time = g1.time_limit,
                              !.progress = 0]
              ELSE new_round([g1 EXCEPT !.start_visible = FALSE,
                                        !.input_visible = TRUE,
                                        !.combo_visible = FALSE], t, pick)
        g3 == clear([g2 EXCEPT !.timer_active = FALSE], t, pick)
    IN  [g3 EXCEPT !.start_time = None,
                   !.enabled = IF ~timed_mode THEN TRUE ELSE @]

\* A faulty start, for C12: the counters of the run before are carried over.
start_timed_mode_carry(g, t, pick) ==
    LET g1 == clear([g EXCEPT !.start_visible = FALSE,
                              !.input_visible = TRUE,
                              !.enabled = TRUE], t, pick)
        g2 == [g1 EXCEPT !.start_time = t,
                         !.remaining_time = g1.time_limit,
                         !.progress = 0,
                         !.timer_active = TRUE,
                         !.timed_defined = TRUE]
    IN  load_new_sentence(g2, t, pick)

start_timed_mode(g, t, pick) ==
    LET g1 == clear([g EXCEPT !.start_visible = FALSE,
                              !.input_visible = TRUE,
                              !.enabled = TRUE], t, pick)
        g2 == [g1 EXCEPT !.start_time = t,
                         !.remaining_time = g1.time_limit,
                         !.progress = 0,
                         !.timer_active = TRUE,
                         !.timed_defined = TRUE,
                         !.timed_sentences_completed = 0,
                         !.timed_chars_typed = 0,
                         !.timed_words_typed = Rat(0, 1)]
    IN  load_new_sentence(g2, t, pick)

\* The items of time_limit_combo and the limit each selects, in ticks.
ComboItems == {"30 seconds", "60 seconds", "2 minutes", "5 minutes"}

\* A faulty selection, for C30: the limit is stored and the countdown is left
\* at the limit of before.
update_time_limit_lazy(g, text) ==
    LET limit == IF text = "30 seconds" THEN 1 * TicksPer30s
                 ELSE IF text = "60 seconds" THEN 2 * TicksPer30s
                 ELSE IF text = "2 minutes" THEN 4 * TicksPer30s
                 ELSE IF text = "5 minutes" THEN 10 * TicksPer30s
                 ELSE g.time_limit
    IN  [g EXCEPT !.time_limit = limit]

update_time_limit(g, text) ==
    LET limit == IF text = "30 seconds" THEN 1 * TicksPer30s
                 ELSE IF text = "60 seconds" THEN 2 * TicksPer30s
                 ELSE IF text = "2 minutes" THEN 4 * TicksPer30s
                 ELSE IF text = "5 minutes" THEN 10 * TicksPer30s
                 ELSE g.time_limit
    IN  [g EXCEPT !.time_limit = limit, !.remaining_time = limit]

\* The items the model selects in the combo box.
Selectable == {"30 seconds", "60 seconds"}

\* A faulty completion, for C19: the characters of the sentence that was being
\* typed when the time ran out are counted too.
complete_timed_round_partial(g) ==
    LET g1 == [g EXCEPT !.timer_active = FALSE, !.enabled = FALSE]
        elapsed_time == g.time_limit
        characters == g.timed_chars_typed + Len(g.text)
        wpm == IF elapsed_time > 0
               THEN RatDiv(g.timed_words_typed, Rat(elapsed_time, 60))
               ELSE Rat(0, 1)
        chars_per_second ==
            IF elapsed_time > 0 THEN Rat(characters, elapsed_time)
            ELSE Rat(0, 1)
        stats == [round |-> g.round_number,
                  time |-> elapsed_time,
                  wpm |-> wpm,
                  cps |-> chars_per_second,
                  characters |-> characters,
                  words |-> g.timed_words_typed,
                  sentences |-> g.timed_sentences_completed]
    IN  IF ~g.timed_defined
        THEN [g1 EXCEPT !.fault = TRUE]
        ELSE [g1 EXCEPT !.stats_history = Append(@, stats),
                        !.modal = Append(@, "timed")]

\* The first half of complete_timed_round, up to the QMessageBox that blocks it.
complete_timed_round(g) ==
    LET g1 == [g EXCEPT !.timer_active = FALSE, !.enabled = FALSE]
        elapsed_time == g.time_limit
        wpm == IF elapsed_time > 0
               THEN RatDiv(g.timed_words_typed, Rat(elapsed_time, 60))
               ELSE Rat(0, 1)
        chars_per_second ==
            IF elapsed_time > 0 THEN Rat(g.timed_chars_typed, elapsed_time)
            ELSE Rat(0, 1)
        stats == [round |-> g.round_number,
                  time |-> elapsed_time,
                  wpm |-> wpm,
                  cps |-> chars_per_second,
                  characters |-> g.timed_chars_typed,
                  words |-> g.timed_words_typed,
                  sentences |-> g.timed_sentences_completed]
    IN  IF ~g.timed_defined
        THEN [g1 EXCEPT !.fault = TRUE]
        ELSE [g1 EXCEPT !.stats_history = Append(@, stats),
                        !.modal = Append(@, "timed")]

\* A faulty countdown, for C9: it ends the run when one second is still left.
update_timed_mode_early(g) ==
    IF g.timed_mode /\ g.remaining_time > 0
    THEN LET g1 == [g EXCEPT !.remaining_time = @ - 1,
                             !.progress =
                                 TimerProgress(g.time_limit, g.remaining_time - 1)]
         IN  IF g1.remaining_time <= 1 THEN complete_timed_round(g1) ELSE g1
    ELSE g

\* The slot of timer.timeout.
update_timed_mode(g) ==
    IF g.timed_mode /\ g.remaining_time > 0
    THEN LET g1 == [g EXCEPT !.remaining_time = @ - 1,
                             !.progress =
                                 TimerProgress(g.time_limit, g.remaining_time - 1)]
         IN  IF g1.remaining_time <= 0 THEN complete_timed_round(g1) ELSE g1
    ELSE g

\* p <= q for two floats.
RatLe(p, q) == p.n * q.d <= q.n * p.d

\* sum(s['wpm'] for s in stats_history) and sum(s.get('cps', 0) for ...): every
\* record has both keys.
RECURSIVE SumWpm(_)
SumWpm(h) == IF h = <<>> THEN Rat(0, 1) ELSE RatAdd(h[1].wpm, SumWpm(Tail(h)))

RECURSIVE SumCps(_)
SumCps(h) == IF h = <<>> THEN Rat(0, 1) ELSE RatAdd(h[1].cps, SumCps(Tail(h)))

\* max() over a non-empty set of floats.
RatMax(S) == CHOOSE p \in S : \A q \in S : RatLe(q, p)

\* A faulty slice, for C26: the five most recent rounds, the newest first.
recent_rounds_newest_first(stats_history) ==
    LET first == IF Len(stats_history) > 5 THEN Len(stats_history) - 4 ELSE 1
        k == Len(stats_history) - first + 1
    IN  [i \in 1..k |-> stats_history[Len(stats_history) + 1 - i]]

\* A faulty slice, for C27: stats_history[:5], the first five rounds.
recent_rounds_oldest(stats_history) ==
    SubSeq(stats_history, 1, Min(5, Len(stats_history)))

\* stats_history[-5:], the records the loop of show_results goes through.
recent_rounds(stats_history) ==
    LET first == IF Len(stats_history) > 5 THEN Len(stats_history) - 4 ELSE 1
    IN  SubSeq(stats_history, first, Len(stats_history))

\* What show_results works out of a non-empty history (691-696) and the text it
\* builds of it (698-712): the averages and the bests with one decimal, and one
\* line for each of the recent rounds with its number, speed and characters per
\* second, these two with one decimal.
statistics(stats_history) ==
    LET total_rounds == Len(stats_history)
        avg_wpm == RatDiv(SumWpm(stats_history), Rat(total_rounds, 1))
        avg_cps == RatDiv(SumCps(stats_history), Rat(total_rounds, 1))
        best_wpm == RatMax({stats_history[i].wpm : i \in 1..total_rounds})
        best_cps == RatMax({stats_history[i].cps : i \in 1..total_rounds})
        recent == recent_rounds(stats_history)
    IN  [empty |-> FALSE,
         total_rounds |-> total_rounds,
         avg_wpm |-> avg_wpm,
         avg_cps |-> avg_cps,
         best_wpm |-> best_wpm,
         best_cps |-> best_cps,
         recent |-> recent,
         results_text |->
             [total_rounds |-> total_rounds,
              avg_wpm |-> Format1(avg_wpm),
              avg_cps |-> Format1(avg_cps),
              best_wpm |-> Format1(best_wpm),
              best_cps |-> Format1(best_cps),
              rounds |-> [i \in 1..Len(recent) |->
                            [round |-> recent[i].round,
                             wpm |-> Format1(recent[i].wpm),
                             cps |-> Format1(recent[i].cps)]]]]

\* The dialog of an empty history: "No rounds completed yet!" (687-689).
NoRounds == [empty |-> TRUE]

\* A faulty view, for C25: the rounds it has shown are taken out of the history.
show_results_consuming(g) ==
    IF g.stats_history = <<>>
    THEN [g EXCEPT !.stats_view = NoRounds,
                   !.modal = Append(@, "stats")]
    ELSE [g EXCEPT !.stats_view = statistics(g.stats_history),
                   !.stats_history = <<>>,
                   !.modal = Append(@, "stats")]

\* The slot of "View Results", up to the QMessageBox that blocks it; nothing
\* follows the dialog.
show_results(g) ==
    IF g.stats_history = <<>>
    THEN [g EXCEPT !.stats_view = NoRounds,
                   !.modal = Append(@, "stats")]
    ELSE [g EXCEPT !.stats_view = statistics(g.stats_history),
                   !.modal = Append(@, "stats")]

\* A faulty continuation, for C6: it forgets round_number += 1.
after_dialog_same_round(g, t, pick) ==
    LET kind == g.modal[Len(g.modal)]
        g1 == [g EXCEPT !.modal = SubSeq(@, 1, Len(@) - 1)]
    IN  IF kind = "sentence" THEN new_round(g1, t, pick)
        ELSE switch_mode(g1, TRUE, t, pick)

\* What a handler does once its dialog is dismissed: lines 682-683 of
\* complete_round, lines 827-828 of complete_timed_round, nothing in show_results.
after_dialog(g, t, pick) ==
    LET kind == g.modal[Len(g.modal)]
        g1 == [g EXCEPT !.modal = SubSeq(@, 1, Len(@) - 1),
                        !.round_number = @ + 1]
    IN  IF kind = "stats"
        THEN [g EXCEPT !.modal = SubSeq(@, 1, Len(@) - 1),
                       !.stats_view = NoView]
        ELSE IF kind = "sentence" THEN new_round(g1, t, pick)
        ELSE switch_mode(g1, TRUE, t, pick)


(***************************** the terminal ********************************)
\* No terminal test is running: the process shows the window.
NoTerminal == [pc |-> "off"]

\* The two terminal tests: terminal_typing_test() of terminal_typing_test.py and
\* typing_test() of index.py.
Surfaces == {"terminal_typing_test", "typing_test"}

TermAlphabet == {"a", "b", "c", "t"}

\* The sentences list of either function: fixed, every sentence non-empty.
TermSentences == {<<"c", "a", "t">>, <<"a", "b">>}

LongestTermSentence ==
    CHOOSE n \in {Len(s) : s \in TermSentences} : \A s \in TermSentences : Len(s) <= n

\* What input() can return for the typed line: any line, the empty one and lines
\* longer than the target included.
Lines == UNION {[1..k -> TermAlphabet] : k \in 0..(LongestTermSentence + 1)}

\* end_time - start_time, on a grid of 1/TermTicksPerSecond seconds.  time.time()
\* follows the system clock, which can stand still or be set back between the
\* two readings.
TermElapsed == {Rat(k, TermTicksPerSecond) : k \in (-1)..MaxTermTicks}

\* What input() can return for the play-again question, character by character.
Answers ==
    { <<"y">>, <<"y", "e", "s">>, <<"Y">>, <<"Y", "E", "S">>, <<" ", "y">>,
      <<"n">>, <<>> }

\* str.lower() on the characters of the answers.
Lower(s) ==
    [i \in 1..Len(s) |->
        CASE s[i] = "Y" -> "y"
          [] s[i] = "E" -> "e"
          [] s[i] = "S" -> "s"
          [] OTHER -> s[i]]

\* The value the variable play_again gets: input(...).lower().strip() in
\* terminal_typing_test.py (185), input(...).lower() in index.py (216).
Normalised(surface, answer) ==
    IF surface = "terminal_typing_test" THEN Strip(Lower(answer)) ELSE Lower(answer)

\* The list ['y', 'yes'] of lines 190 and 217.
Yes == { <<"y">>, <<"y", "e", "s">> }

\* The answers that go on with another round.
Affirmative(surface) == {answer \in Answers : Normalised(surface, answer) \in Yes}

\* x >= k for a float x and an integer k.
RatGe(p, k) == p.n >= k * p.d

\* A faulty speed, for C22: an elapsed time that is not positive is taken for
\* one tick of the clock.
term_wpm_one_tick(user_input, elapsed_time) ==
    LET elapsed == IF elapsed_time.n > 0 THEN elapsed_time
                   ELSE Rat(1, TermTicksPerSecond)
        words_typed == Rat(Len(user_input), 5)
        minutes == RatDiv(elapsed, Rat(60, 1))
    IN  RatDiv(words_typed, minutes)

\* The WPM both functions compute from the submitted line and the elapsed time.
term_wpm(user_input, elapsed_time) ==
    IF elapsed_time.n > 0
    THEN LET words_typed == Rat(Len(user_input), 5)
             minutes == RatDiv(elapsed_time, Rat(60, 1))
         IN  RatDiv(words_typed, minutes)
    ELSE Rat(0, 1)

\* A faulty count, for C23: the characters typed beyond the end of the target
\* are counted as right.
correct_chars_overrun(user_input, target_sentence) ==
    Cardinality({i \in 1..Min(Len(user_input), Len(target_sentence)) :
                    user_input[i] = target_sentence[i]})
    + (IF Len(user_input) > Len(target_sentence)
       THEN Len(user_input) - Len(target_sentence) ELSE 0)

\* The loop that counts the positions at which the line and the target agree.
correct_chars(user_input, target_sentence) ==
    Cardinality({i \in 1..Min(Len(user_input), Len(target_sentence)) :
                    user_input[i] = target_sentence[i]})

\* The accuracy of terminal_typing_test.py, with its guard for an empty target.
accuracy_guarded(user_input, target_sentence) ==
    LET total_chars == Len(target_sentence)
    IN  IF total_chars > 0
        THEN Rat(correct_chars(user_input, target_sentence) * 100, total_chars)
        ELSE Rat(0, 1)

\* The accuracy of index.py: it divides by the length of the target.
accuracy_unguarded(user_input, target_sentence) ==
    Rat(correct_chars(user_input, target_sentence) * 100, Len(target_sentence))

term_accuracy(surface, user_input, target_sentence) ==
    IF surface = "terminal_typing_test"
    THEN accuracy_guarded(user_input, target_sentence)
    ELSE accuracy_unguarded(user_input, target_sentence)

\* A faulty rating, for C24: a speed of exactly 60 is not yet excellent.
get_performance_rating_strict(wpm, accuracy) ==
    IF wpm.n > 60 * wpm.d /\ RatGe(accuracy, 95) THEN "EXCELLENT"
    ELSE IF RatGe(wpm, 40) /\ RatGe(accuracy, 85) THEN "GOOD JOB"
    ELSE "KEEP PRACTICING"

\* get_performance_rating of terminal_typing_test.py.
get_performance_rating(wpm, accuracy) ==
    IF RatGe(wpm, 60) /\ RatGe(accuracy, 95) THEN "EXCELLENT"
    ELSE IF RatGe(wpm, 40) /\ RatGe(accuracy, 85) THEN "GOOD JOB"
    ELSE "KEEP PRACTICING"

\* The rating display_results of index.py works out.
display_results_rating(wpm, accuracy) ==
    IF RatGe(wpm, 60) /\ RatGe(accuracy, 95) THEN "EXCELLENT"
    ELSE IF RatGe(wpm, 40) /\ RatGe(accuracy, 85) THEN "GOOD JOB"
    ELSE "KEEP PRACTICING"

term_rating(surface, wpm, accuracy) ==
    IF surface = "terminal_typing_test"
    THEN get_performance_rating(wpm, accuracy)
    ELSE display_results_rating(wpm, accuracy)

\* The title of the dialog complete_round opens.
complete_round_title(wpm) ==
    IF RatGe(wpm, 60) THEN "EXCELLENT"
    ELSE IF RatGe(wpm, 40) THEN "GOOD JOB"
    ELSE "KEEP PRACTICING"

\* The title of the dialog complete_timed_round opens.
complete_timed_round_title(wpm) ==
    IF RatGe(wpm, 60) THEN "EXCELLENT"
    ELSE IF RatGe(wpm, 40) THEN "GOOD JOB"
    ELSE "KEEP PRACTICING"

\* The terminal test waiting in input() for the typed line of a round.
Typing(surface, round_number, target_sentence) ==
    [pc |-> "typing",
     surface |-> surface,
     round_number |-> round_number,
     target_sentence |-> target_sentence]

\* The body of the loop from the line read to the play-again question: the
\* results are computed and displayed, speed and accuracy with one decimal.
submit_line(t, user_input, elapsed_time) ==
    LET wpm == term_wpm(user_input, elapsed_time)
        accuracy == term_accuracy(t.surface, user_input, t.target_sentence)
    IN  [pc |-> "again",
         surface |-> t.surface,
         round_number |-> t.round_number,
         target_sentence |-> t.target_sentence,
         user_input |-> user_input,
         elapsed_time |-> elapsed_time,
         wpm |-> wpm,
         accuracy |-> accuracy,
         rating |-> term_rating(t.surface, wpm, accuracy),
         shown_wpm |-> Format1(wpm),
         shown_accuracy |-> Format1(accuracy)]

\* A faulty end of the loop, for C31: the next round keeps the number of the
\* round before.
play_again_same_round(t, answer, pick) ==
    IF Normalised(t.surface, answer) \in Yes
    THEN Typing(t.surface, t.round_number, pick)
             @@ [play_again |-> Normalised(t.surface, answer)]
    ELSE [pc |-> "done", surface |-> t.surface, round_number |-> t.round_number,
          play_again |-> Normalised(t.surface, answer)]

\* The end of the loop: another round on 'y' or 'yes', the goodbye otherwise.
\* The record keeps the value of the variable play_again.
play_again(t, answer, pick) ==
    IF Normalised(t.surface, answer) \in Yes
    THEN Typing(t.surface, t.round_number + 1, pick)
             @@ [play_again |-> Normalised(t.surface, answer)]
    ELSE [pc |-> "done", surface |-> t.surface, round_number |-> t.round_number,
          play_again |-> Normalised(t.surface, answer)]

\* No window: the process runs a terminal test.
NoWindow == [running |-> FALSE]

(****************************** the events *********************************)
\* The event loop takes a user event only when no dialog is open and the process
\* lives; the model follows the process until its history holds `rounds' records.
Idle(rounds) ==
    gui.modal = <<>> /\ ~gui.fault /\ Len(gui.stats_history) < rounds

\* The run counters and the clock stay within the bounds of the model.
WithinBounds(g) ==
    /\ g.timed_sentences_completed <= MaxRunSentences
    /\ Elapsed(g) <= MaxElapsed

\* A text completes the target when it begins with it.
Completes(text, target) == IsPrefix(target, text)

\* What random.choice can return inside the slot of textChanged: the slot draws
\* a sentence only in timed mode (line 607).
Draws(g) == IF g.timed_mode THEN Bank ELSE {g.current_sentence}

\* How far the clock can move between the two readings of the slot; the timed
\* branch does not read the clock.
Drift(g) == IF g.timed_mode THEN {0} ELSE {0, 1}

\* The window once __init__ has returned; reentered looks at the events that
\* follow.
Init ==
    /\ \E pick \in Bank :
          gui = [new_round(Constructed, Now, pick) EXCEPT !.reentered = FALSE]
    /\ run_log = <<>>
    /\ term = NoTerminal

\* The user edits the input box (typing, pasting, deleting): the box holds text
\* and textChanged runs the slot.  A disabled or hidden box takes no edits.  The
\* clock may move by dt between the slot's two readings of it.
Edit(rounds, drifts) ==
    /\ Idle(rounds)
    /\ gui.enabled /\ gui.input_visible
    /\ \E text \in Texts, pick \in Draws(gui), dt \in Drift(gui) \cap drifts :
          /\ gui' = Past(on_text_changed([gui EXCEPT !.text = text],
                                         Now, Now + dt, pick), dt)
          /\ run_log' = IF gui.timed_mode /\ gui.timer_active
                           /\ Completes(text, gui.current_sentence)
                        THEN Append(run_log, gui.current_sentence)
                        ELSE run_log
    /\ WithinBounds(gui')
    /\ UNCHANGED term

\* The QTimer fires: only a started timer does.
Timeout(rounds) ==
    /\ Idle(rounds)
    /\ gui.timer_active
    /\ gui' = update_timed_mode(gui)
    /\ UNCHANGED run_log
    /\ UNCHANGED term

\* "Start New Round" is clicked.
ClickNewRound(rounds) ==
    /\ Idle(rounds)
    /\ \E pick \in Bank : gui' = new_round(gui, Now, pick)
    /\ run_log' = <<>>
    /\ UNCHANGED term

\* "Reset Input" is clicked.
ClickReset(rounds) ==
    /\ Idle(rounds)
    /\ \E pick \in Bank : gui' = reset_input(gui, Now, pick)
    /\ run_log' = <<>>
    /\ UNCHANGED term

\* One of the two mode buttons is clicked.
ClickMode(rounds) ==
    /\ Idle(rounds)
    /\ \E timed_mode \in BOOLEAN, pick \in Bank :
          gui' = switch_mode(gui, timed_mode, Now, pick)
    /\ run_log' = <<>>
    /\ UNCHANGED term

\* "Start Timed Test" is clicked: the button is there only while it is shown.
ClickStart(rounds) ==
    /\ Idle(rounds)
    /\ gui.start_visible
    /\ \E pick \in Bank : gui' = start_timed_mode(gui, Now, pick)
    /\ run_log' = <<>>
    /\ UNCHANGED term

\* Another item of the combo box is selected: currentTextChanged fires only when
\* the text changes, and the box is there only while it is shown.
SelectLimit(rounds) ==
    /\ Idle(rounds)
    /\ gui.combo_visible
    /\ \E text \in Selectable :
          /\ update_time_limit(gui, text).time_limit # gui.time_limit
          /\ gui' = update_time_limit(gui, text)
    /\ UNCHANGED run_log
    /\ UNCHANGED term

TextChanged == Edit(MaxRounds, {0, 1})

Tick == Timeout(MaxRounds)

NewRound == ClickNewRound(MaxRounds)

ResetInput == ClickReset(MaxRounds)

SwitchMode == ClickMode(MaxRounds)

StartTimedMode == ClickStart(MaxRounds)

UpdateTimeLimit == SelectLimit(MaxRounds)

\* The user closes the innermost dialog and the handler that opened it goes on.
DismissDialog ==
    /\ gui.modal # <<>>
    /\ ~gui.fault
    /\ \E pick \in Bank : gui' = after_dialog(gui, Now, pick)
    /\ run_log' = IF gui.modal[Len(gui.modal)] = "stats" THEN run_log ELSE <<>>
    /\ UNCHANGED term

\* The wall clock moves on while a sentence round is being timed (a timed run
\* stores start_time and never reads it).
Elapse ==
    /\ gui.start_time # None
    /\ ~gui.timed_mode
    /\ Elapsed(gui) < MaxElapsed
    /\ gui' = Past(gui, 1)
    /\ UNCHANGED run_log
    /\ UNCHANGED term

Next ==
    \/ TextChanged
    \/ Tick
    \/ NewRound
    \/ ResetInput
    \/ SwitchMode
    \/ StartTimedMode
    \/ UpdateTimeLimit
    \/ DismissDialog
    \/ Elapse

\* The program under the events Qt delivers.
Spec == Init /\ [][Next]_vars

(************ the same program while the clock stands still ***************)
\* Every reading of time.time() within a round returns the same instant and the
\* combo box is left alone; the history may then grow to MaxLogRounds records.
LogTextChanged == Edit(MaxLogRounds, {0})

LogTick == Timeout(MaxLogRounds)

LogNewRound == ClickNewRound(MaxLogRounds)

LogResetInput == ClickReset(MaxLogRounds)

LogSwitchMode == ClickMode(MaxLogRounds)

LogStartTimedMode == ClickStart(MaxLogRounds)

LogNext ==
    \/ LogTextChanged
    \/ LogTick
    \/ LogNewRound
    \/ LogResetInput
    \/ LogSwitchMode
    \/ LogStartTimedMode
    \/ DismissDialog

SpecLog == Init /\ [][LogNext]_vars

(********************** one timed run, left alone *************************)
\* The states right after "Start Timed Test" was clicked in a fresh window, for
\* every limit the combo box offers: the window is switched to timed mode, an
\* item is selected or not, and the run is started.
RunInit ==
    /\ \E first \in Bank, pick \in Bank, text \in ComboItems :
          LET g0 == new_round(Constructed, Now, first)
              g1 == switch_mode(g0, TRUE, Now, first)
              g2 == update_time_limit(g1, text)
          IN  gui = start_timed_mode(g2, Now, pick)
    /\ run_log = <<>>
    /\ term = NoTerminal

\* The run receives ticks and input-change events only, and the dialog that ends
\* it is dismissed.
RunNext ==
    \/ TextChanged
    \/ Tick
    \/ DismissDialog

\* The event loop delivers the timeout of a running QTimer again and again.
SpecRun == RunInit /\ [][RunNext]_vars /\ WF_vars(Tick)

(************************** stale events **********************************)
\* An event delivered against a state that no longer expects it: a tick while
\* the timer is stopped, an input-change while a round is completed (its dialog
\* is open) or the input box is disabled.  Qt delivers neither; the slots can
\* still be called, and these actions call them.
StaleTick ==
    /\ ~gui.fault
    /\ ~gui.timer_active
    /\ gui' = update_timed_mode(gui)
    /\ Len(gui'.stats_history) <= MaxRounds + 1
    /\ UNCHANGED run_log
    /\ UNCHANGED term

StaleTextChanged ==
    /\ ~gui.fault
    /\ gui.modal # <<>> \/ ~gui.enabled
    /\ \E pick \in Draws(gui), dt \in Drift(gui) :
          gui' = Past(on_text_changed(gui, Now, Now + dt, pick), dt)
    /\ WithinBounds(gui')
    /\ Len(gui'.stats_history) <= MaxRounds + 1
    /\ UNCHANGED run_log
    /\ UNCHANGED term

StaleNext ==
    \/ Next
    \/ StaleTick
    \/ StaleTextChanged

SpecStale == Init /\ [][StaleNext]_vars


(******************* one evaluation of the input box **********************)
\* The slot of textChanged as a function of what it reads: the mode, the target,
\* the text in the box, and how long ago the round's clock was started.  The
\* states below are windows in which the user's edit has reached the box and the
\* slot is about to run; targets and texts range over a larger alphabet than the
\* bank's, with an upper-case letter in it.
EvalAlphabet == Alphabet \cup {"A"}

EvalTargets == UNION {[1..k -> EvalAlphabet] : k \in 1..LongestSentence}

EvalTexts == UNION {[1..k -> EvalAlphabet] : k \in 0..(LongestSentence + 1)}

\* A stored start time is a time that can be told from None.
EvalStarts == {None} \cup {Now - e : e \in 0..MaxEvalElapsed}

EvalInit ==
    /\ \E target \in EvalTargets, text \in EvalTexts :
          \/ \E start \in EvalStarts :
                gui = [new_round(Constructed, Now, target)
                          EXCEPT !.text = text, !.start_time = start]
          \/ LET g0 == new_round(Constructed, Now, target)
                 g1 == switch_mode(g0, TRUE, Now, target)
             IN  gui = [start_timed_mode(g1, Now, target) EXCEPT !.text = text]
    /\ run_log = <<>>
    /\ term = NoTerminal

\* textChanged runs the slot on the text that is in the box.
Evaluate ==
    /\ gui.modal = <<>> /\ ~gui.fault
    /\ gui.enabled
    /\ \E pick \in Draws(gui) : gui' = on_text_changed(gui, Now, Now, pick)
    /\ run_log' = IF gui.timed_mode /\ gui.timer_active
                     /\ Completes(gui.text, gui.current_sentence)
                  THEN Append(run_log, gui.current_sentence)
                  ELSE run_log
    /\ UNCHANGED term

EvalNext ==
    \/ Evaluate
    \/ DismissDialog

SpecEval == EvalInit /\ [][EvalNext]_vars

(**************************** the statistics *******************************)
\* "View Results" is clicked.  The button takes the click whenever no dialog is
\* open: viewing adds no record, so the bound on the rounds does not apply.
ShowResults ==
    /\ gui.modal = <<>> /\ ~gui.fault
    /\ gui' = show_results(gui)
    /\ UNCHANGED <<run_log, term>>

\* The statistics dialog blocks its handler in a nested event loop, which goes
\* on delivering the timeouts of a running QTimer: the countdown moves behind
\* the dialog, and the completion dialog of the run opens on top of it.
TickBehindStats ==
    /\ gui.modal # <<>> /\ ~gui.fault
    /\ gui.modal[Len(gui.modal)] = "stats"
    /\ gui.timer_active
    /\ Len(gui.stats_history) < MaxLogRounds
    /\ gui' = update_timed_mode(gui)
    /\ UNCHANGED <<run_log, term>>

\* The window with its statistics button, the clock standing still.
StatsNext ==
    \/ LogNext
    \/ ShowResults
    \/ TickBehindStats

SpecStats == Init /\ [][StatsNext]_vars

(************************** the statistics view ****************************)
\* The view as a function of the history.  The records are those the two
\* completion handlers write: of a sentence of n characters completed in e
\* seconds, and of a timed run of a given limit.
SentenceRecord(round, n, e) ==
    LET g == [Constructed EXCEPT !.round_number = round,
                                 !.text = [i \in 1..n |-> "a"]]
        wpm == ParseLabel(Format1(RatDiv(Rat(n, 5), Rat(e, 60))))
    IN  LET done == complete_round(g, e, wpm)
        IN  done.stats_history[Len(done.stats_history)]

TimedRecord(round, chars, sentences, limit) ==
    LET g == [Constructed EXCEPT !.round_number = round,
                                 !.timed_mode = TRUE,
                                 !.timed_defined = TRUE,
                                 !.time_limit = limit,
                                 !.timed_chars_typed = chars,
                                 !.timed_words_typed = Rat(chars, 5),
                                 !.timed_sentences_completed = sentences]
    IN  LET done == complete_timed_round(g)
        IN  done.stats_history[Len(done.stats_history)]

\* The records a round can leave: a slow sentence, a fast one, a timed run.
ViewRecords(round) ==
    {SentenceRecord(round, 1, 7),
     SentenceRecord(round, 2, 1),
     TimedRecord(round, 3, 2, 2 * TicksPer30s)}

\* The histories of k rounds, round i in place i, and those of up to MaxHistory
\* rounds.
RECURSIVE HistoriesOfLength(_)
HistoriesOfLength(k) ==
    IF k = 0 THEN {<<>>}
    ELSE UNION {{Append(h, r) : r \in ViewRecords(k)} : h \in HistoriesOfLength(k - 1)}

Histories == UNION {HistoriesOfLength(k) : k \in 0..MaxHistory}

ViewInit ==
    /\ \E pick \in Bank, h \in Histories :
          gui = [new_round(Constructed, Now, pick)
                    EXCEPT !.stats_history = h,
                           !.round_number = Len(h) + 1,
                           !.reentered = FALSE]
    /\ run_log = <<>>
    /\ term = NoTerminal

ViewNext ==
    \/ ShowResults
    \/ DismissDialog

SpecView == ViewInit /\ [][ViewNext]_vars

(************************** the terminal tests *****************************)
\* One run of a terminal test, from the first round's prompt for the line.
TermInit ==
    /\ \E surface \in Surfaces, pick \in TermSentences :
          term = Typing(surface, 1, pick)
    /\ gui = NoWindow
    /\ run_log = <<>>

\* The user submits the line: input() returns it and the results are displayed.
SubmitLine ==
    /\ term.pc = "typing"
    /\ \E user_input \in Lines, elapsed_time \in TermElapsed :
          term' = submit_line(term, user_input, elapsed_time)
    /\ UNCHANGED <<gui, run_log>>

\* The user answers the play-again question.
PlayAgain ==
    /\ term.pc = "again"
    /\ \E answer \in Answers, pick \in TermSentences :
          /\ answer \in Affirmative(term.surface) =>
                term.round_number < MaxTermRounds
          /\ term' = play_again(term, answer, pick)
    /\ UNCHANGED <<gui, run_log>>

\* Ctrl-C while input() waits: terminal_typing_test leaves its loop and says
\* goodbye (146-148, 186-188); typing_test catches nothing and the exception
\* ends the process.
Interrupt ==
    /\ term.pc \in {"typing", "again"}
    /\ term' = [pc |-> IF term.surface = "terminal_typing_test"
                       THEN "done" ELSE "aborted",
                surface |-> term.surface,
                round_number |-> term.round_number]
    /\ UNCHANGED <<gui, run_log>>

\* input() for the line raises another exception (end of input):
\* terminal_typing_test goes on with the loop, a new sentence and the same round
\* number (149-151); typing_test is ended by it.
InputError ==
    /\ term.pc = "typing"
    /\ \E pick \in TermSentences :
          term' = IF term.surface = "terminal_typing_test"
                  THEN Typing(term.surface, term.round_number, pick)
                  ELSE [pc |-> "aborted",
                        surface |-> term.surface,
                        round_number |-> term.round_number]
    /\ UNCHANGED <<gui, run_log>>

TermNext ==
    \/ SubmitLine
    \/ PlayAgain
    \/ Interrupt
    \/ InputError

SpecTerm == TermInit /\ [][TermNext]_vars

(*************************** the performance tier **************************)
\* The rating as a function of the speed and, where there is one, the accuracy:
\* the two terminal tests, and the two completion dialogs of the window, which
\* have no accuracy.  Speeds and accuracies are drawn in tenths around the
\* thresholds, with 0 and the top of the scale.
Raters == Surfaces \cup {"complete_round", "complete_timed_round"}

Around(tenths) == (tenths - TierSpread)..(tenths + TierSpread)

TierWpms == {Rat(n, 10) : n \in {0, 1200} \cup Around(400) \cup Around(600)}

TierAccuracies == {Rat(n, 10) : n \in {0, 1000} \cup Around(850) \cup Around(950)}

\* The accuracy of a surface that tracks none.
Untracked == Rat(-1, 1)

TierInit ==
    /\ \E rater \in Raters, wpm \in TierWpms, accuracy \in TierAccuracies \cup {Untracked} :
          /\ (rater \in Surfaces) <=> (accuracy # Untracked)
          /\ term = [pc |-> "rate", rater |-> rater, wpm |-> wpm,
                     accuracy |-> accuracy]
    /\ gui = NoWindow
    /\ run_log = <<>>

\* The rating is worked out.
Rate ==
    /\ term.pc = "rate"
    /\ term' = [term EXCEPT !.pc = "rated"] @@
               [rating |->
                  IF term.rater \in Surfaces
                  THEN term_rating(term.rater, term.wpm, term.accuracy)
                  ELSE IF term.rater = "complete_round"
                       THEN complete_round_title(term.wpm)
                       ELSE complete_timed_round_title(term.wpm)]
    /\ UNCHANGED <<gui, run_log>>

TierNext == Rate

SpecTier == TierInit /\ [][TierNext]_vars

(********************** the limit chosen before a run **********************)
\* A window armed for a timed run.  The combo box is used only while the timer
\* is stopped, the run that is then started is left to its ticks and to typing,
\* and the window counts in `ticks' the timeouts that timer.start(1000) of line
\* 759 has delivered.
LimitInit ==
    /\ \E first \in Bank :
          LET g0 == new_round(Constructed, Now, first)
              g1 == switch_mode(g0, TRUE, Now, first)
          IN  gui = [g1 EXCEPT !.reentered = FALSE] @@ [ticks |-> 0]
    /\ run_log = <<>>
    /\ term = NoTerminal

\* An item of the combo box is selected while the timer is stopped.
SelectWhileArmed ==
    /\ Idle(MaxRounds)
    /\ gui.combo_visible
    /\ ~gui.timer_active
    /\ \E text \in ComboItems :
          /\ update_time_limit(gui, text).time_limit # gui.time_limit
          /\ gui' = update_time_limit(gui, text)
    /\ UNCHANGED <<run_log, term>>

\* "Start Timed Test" is clicked: the timer starts and has delivered nothing.
CountedStart ==
    /\ Idle(MaxRounds)
    /\ gui.start_visible
    /\ \E pick \in Bank :
          gui' = [start_timed_mode(gui, Now, pick) EXCEPT !.ticks = 0]
    /\ run_log' = <<>>
    /\ UNCHANGED term

\* The started timer delivers a timeout.
CountedTick ==
    /\ Idle(MaxRounds)
    /\ gui.timer_active
    /\ gui' = [update_timed_mode(gui) EXCEPT !.ticks = @ + 1]
    /\ UNCHANGED <<run_log, term>>

LimitNext ==
    \/ SelectWhileArmed
    \/ CountedStart
    \/ CountedTick
    \/ TextChanged
    \/ DismissDialog

SpecLimit == LimitInit /\ [][LimitNext]_vars

(************************ a session of either kind *************************)
\* The launcher runs one of the two programs: the window in sentence and timed
\* mode, or a terminal test.
SessionInit == Init \/ TermInit

SessionNext ==
    \/ term = NoTerminal /\ TextChanged
    \/ term = NoTerminal /\ Tick
    \/ term = NoTerminal /\ NewRound
    \/ term = NoTerminal /\ ResetInput
    \/ term = NoTerminal /\ SwitchMode
    \/ term = NoTerminal /\ StartTimedMode
    \/ term = NoTerminal /\ UpdateTimeLimit
    \/ term = NoTerminal /\ DismissDialog
    \/ term = NoTerminal /\ Elapse
    \/ gui = NoWindow /\ SubmitLine
    \/ gui = NoWindow /\ PlayAgain
    \/ gui = NoWindow /\ Interrupt
    \/ gui = NoWindow /\ InputError

SpecSession == SessionInit /\ [][SessionNext]_vars

(************************ the bank the window is given *********************)
\* A faulty constructor, for C32: given no sentence it draws none and goes on
\* with the empty target.
init_without_draw(sentences, t, i) ==
    IF sentences = <<>>
    THEN new_round(Constructed, t, <<>>)
    ELSE new_round(Constructed, t, sentences[i])

\* __init__ as a function of the list it assigns to self.sentences (22-37); i is
\* the index random.choice draws.  random.choice raises IndexError on an empty
\* list: new_round is left at line 534 and __init__ at line 51, and main()
\* (840) has no window to show.
__init__(sentences, t, i) ==
    IF sentences = <<>>
    THEN [Constructed EXCEPT !.fault = TRUE]
    ELSE new_round(Constructed, t, sentences[i])

\* The lists the window is constructed with: the bank and the empty list.
Configurations == {Sentences, <<>>}

\* The window after TypingTestGUI(), with the list it was given.
BankInit ==
    /\ \E sentences \in Configurations :
          \E i \in IF sentences = <<>> THEN {0} ELSE DOMAIN sentences :
             gui = [__init__(sentences, Now, i) EXCEPT !.reentered = FALSE]
                       @@ [sentences |-> sentences]
    /\ run_log = <<>>
    /\ term = NoTerminal

BankNext == Next

SpecBank == BankInit /\ [][BankNext]_vars

(****************************** the launcher *******************************)
\* launcher.py: the menu loop of main() around the two programs.  In this
\* specification term holds the launcher: where it is (pc), what
\* check_dependencies found missing, how often the menu has been shown, the
\* versions that were run, and what ended the launcher.  A program that the
\* launcher calls is taken by the way it comes back: the call returns, or an
\* exception leaves it.  input() returns a line or is interrupted by Ctrl-C.

\* What input() can return for the choice, character by character.
Choices == { <<"1">>, <<"2">>, <<"3">>, <<" ", "2">>, <<"4">>, <<>> }

\* check_dependencies(): PyQt5 can be imported or not.
Dependencies == { {}, {"PyQt5"} }

\* main() at its first menu.
Menu(missing_deps) ==
    [pc |-> "menu",
     missing_deps |-> missing_deps,
     menus |-> 1,
     launched |-> <<>>,
     ended_by |-> "nothing"]

\* The body of the loop from the choice read (125) to the call of a version or
\* to the message of an invalid choice; "3" leaves the loop.
main_choice(l, choice) ==
    LET c == Strip(choice)
    IN  IF c = <<"1">> THEN [l EXCEPT !.pc = "cui_enter"]
        ELSE IF c = <<"2">>
        THEN IF "PyQt5" \in l.missing_deps
             THEN [l EXCEPT !.pc = "enter"]
             ELSE [l EXCEPT !.pc = "gui_enter"]
        ELSE IF c = <<"3">> THEN [l EXCEPT !.pc = "ended", !.ended_by = "choice 3"]
        ELSE [l EXCEPT !.pc = "enter"]

\* How the call of a version can come back.  terminal_typing_test() returns
\* after its goodbye, lets the Ctrl-C of its unguarded input() calls (123, 137)
\* through, or fails with another exception; typing_test_gui.main() ends in
\* sys.exit(app.exec_()) (843), which raises SystemExit, or fails before it.
Outcomes(version) ==
    IF version = "cui"
    THEN {"return", "Exception", "KeyboardInterrupt"}
    ELSE {"SystemExit", "Exception"}

\* run_cui_version (59-76) and run_gui_version (85-103) around the call: a
\* return and an exception caught by 'except Exception' lead to the prompt that
\* returns to the menu; KeyboardInterrupt is caught by main (146-148), which
\* leaves the loop; SystemExit is no Exception and is caught nowhere: it ends
\* the process.
run_version(l, version, outcome) ==
    IF outcome \in {"return", "Exception"}
    THEN [l EXCEPT !.pc = "return_enter", !.launched = Append(@, version)]
    ELSE [l EXCEPT !.pc = "ended",
                   !.launched = Append(@, version),
                   !.ended_by = outcome]

LauncherInit ==
    /\ \E missing_deps \in Dependencies : term = Menu(missing_deps)
    /\ gui = NoWindow
    /\ run_log = <<>>

\* The user enters a choice at the menu.
Choose ==
    /\ term.pc = "menu"
    /\ \E choice \in Choices : term' = main_choice(term, choice)
    /\ UNCHANGED <<gui, run_log>>

\* The user presses Enter at a "Press Enter ..." prompt: before a version is
\* started the version starts, otherwise the loop shows the menu again.
PressEnter ==
    /\ term.pc \in {"enter", "return_enter", "cui_enter", "gui_enter"}
    /\ term.pc \in {"enter", "return_enter"} => term.menus < MaxMenus
    /\ term' = IF term.pc = "cui_enter" THEN [term EXCEPT !.pc = "cui"]
               ELSE IF term.pc = "gui_enter" THEN [term EXCEPT !.pc = "gui"]
               ELSE [term EXCEPT !.pc = "menu", !.menus = @ + 1]
    /\ UNCHANGED <<gui, run_log>>

\* The terminal version comes back.
CuiEnds ==
    /\ term.pc = "cui"
    /\ \E outcome \in Outcomes("cui") : term' = run_version(term, "cui", outcome)
    /\ UNCHANGED <<gui, run_log>>

\* The window is closed (or could not be made): the GUI version comes back.
GuiEnds ==
    /\ term.pc = "gui"
    /\ \E outcome \in Outcomes("gui") : term' = run_version(term, "gui", outcome)
    /\ UNCHANGED <<gui, run_log>>

\* Ctrl-C while the launcher waits in one of its own input() calls: main
\* catches it and leaves the loop (146-148).
CtrlC ==
    /\ term.pc \in {"menu", "enter", "return_enter", "cui_enter", "gui_enter"}
    /\ term' = [term EXCEPT !.pc = "ended", !.ended_by = "KeyboardInterrupt"]
    /\ UNCHANGED <<gui, run_log>>

LauncherNext ==
    \/ Choose
    \/ PressEnter
    \/ CuiEnds
    \/ GuiEnds
    \/ CtrlC

SpecLauncher == LauncherInit /\ [][LauncherNext]_vars

(******************************* the claims ********************************)
\* The record appended last to the statistics history.
LastRecord == gui.stats_history[Len(gui.stats_history)]

\* A round is Active: the countdown runs (timed mode), or the clock of the round
\* has been started by the first input-change (sentence mode).
RoundActive == IF gui.timed_mode THEN gui.timer_active ELSE gui.start_time # None

\* C1: after every input-change event processed while a round accepts input
\* (sentence mode, or timed mode with the timer running) the input buffer is a
\* prefix of the current target: it is no longer than the target and agrees with
\* it at every position.
C1_BufferIsPrefixAfterInput ==
    [][ \/ IsPrefix(gui'.text, gui'.current_sentence)
        \/ ~((~gui.timed_mode \/ gui.timer_active) /\ TextChanged) ]_vars

\* C1 happens: a timed run is on, one right character has been typed and kept,
\* and the target has more.
C1_Witness ==
    /\ gui.timed_mode /\ gui.timer_active /\ gui.modal = <<>>
    /\ gui.text = <<"a">>
    /\ gui.current_sentence = <<"a", "b">>

\* C2: in every reachable state the input buffer is no longer than the current
\* target sentence.
C2_BufferWithinTarget == Len(gui.text) <= Len(gui.current_sentence)

\* C3: a mode switch requested while a round is Active is rejected: it changes
\* nothing of the window, and the round stays Active.
C3_SwitchRejectedWhileActive ==
    [][ (RoundActive /\ SwitchMode) => gui' = gui ]_vars

\* C4: selecting another time limit while a timed run is Active leaves the run
\* alone: remaining_time is not reset, and the limit that the completion will use
\* as the duration stays the one the run was started with.
C4_LimitChangeIgnoredWhileActive ==
    [][ (gui.timed_mode /\ gui.timer_active /\ UpdateTimeLimit)
            => /\ gui'.remaining_time = gui.remaining_time
               /\ gui'.time_limit = gui.time_limit ]_vars

\* C5: in sentence mode a round completes on exactly the input-change events
\* after which the truncated buffer, trimmed, equals the target, trimmed, and on
\* no other event.  The completion disables the input, appends exactly one record
\* (of the current round index) and opens its dialog; when the dialog is dismissed
\* the round index goes up by exactly 1, and nothing else changes the index.
C5_SentenceCompletion ==
    [][ /\ \/ gui'.stats_history = gui.stats_history
           \/ gui.timed_mode
           \/ /\ TextChanged
              /\ Strip(gui'.text) = Strip(gui'.current_sentence)
        /\ \/ gui.timed_mode
           \/ IF Strip(gui'.text) = Strip(gui'.current_sentence)
              THEN /\ ~gui'.enabled
                   /\ gui'.modal = <<"sentence">>
                   /\ Len(gui'.stats_history) = Len(gui.stats_history) + 1
                   /\ SubSeq(gui'.stats_history, 1, Len(gui.stats_history))
                          = gui.stats_history
                   /\ gui'.stats_history[Len(gui'.stats_history)].round
                          = gui.round_number
                   /\ gui'.round_number = gui.round_number
              ELSE /\ gui'.enabled
                   /\ gui'.modal = <<>>
                   /\ gui'.stats_history = gui.stats_history
                   /\ gui'.round_number = gui.round_number
           \/ ~TextChanged
        /\ \/ gui'.round_number = gui.round_number
           \/ /\ gui.modal # <<>>
              /\ gui'.round_number = gui.round_number + 1
        /\ \/ gui.modal # <<"sentence">>
           \/ ~DismissDialog
           \/ /\ gui'.round_number = gui.round_number + 1
              /\ gui'.stats_history = gui.stats_history
              /\ gui'.modal = <<>>
    ]_vars

\* C5 happens: a sentence has just been completed after time went by, its record
\* is in the history and its dialog is open.
C5_Witness ==
    /\ ~gui.timed_mode
    /\ gui.modal = <<"sentence">>
    /\ ~gui.enabled
    /\ Strip(gui.text) = Strip(gui.current_sentence)
    /\ Len(gui.stats_history) = 1
    /\ LastRecord.time > 0

\* C6: the round indices stored in the statistics history are 1, 2, 3, ... in
\* the order the records were appended.
C6_RoundIndicesCount ==
    \A i \in 1..Len(gui.stats_history) : gui.stats_history[i].round = i

\* C6 happens: a sentence round and a timed run have both been recorded, and the
\* second dialog has been dismissed.
C6_Witness ==
    /\ Len(gui.stats_history) = 2
    /\ \E i, j \in 1..2 : /\ "sentences" \in DOMAIN gui.stats_history[i]
                          /\ "sentences" \notin DOMAIN gui.stats_history[j]
    /\ gui.modal = <<>>
    /\ gui.round_number = 3

\* C7: a tick delivered while the timer is stopped changes nothing.
C7_StaleTickIsNoOp ==
    [][ StaleTick => gui' = gui ]_vars

\* C8: an input-change delivered while a round is completed or the input box is
\* disabled changes nothing.
C8_StaleInputIsNoOp ==
    [][ StaleTextChanged => gui' = gui ]_vars

\* C9: a timed run started with limit L that receives ticks and input-changes
\* only starts with remaining_time = L, loses exactly 1 of it per tick and none
\* otherwise, completes in the tick that brings it to 0 (the L-th) and in no
\* other step, and under fair ticks does complete.  The completing tick stops
\* the timer, disables the input and appends exactly one record; dismissing the
\* dialog raises the round index by 1.
C9_TimedRunCompletesOnLastTick ==
    /\ gui.timer_active /\ gui.enabled /\ gui.modal = <<>>
    /\ gui.remaining_time = gui.time_limit
    /\ gui.stats_history = <<>>
    /\ [][ /\ gui'.time_limit = gui.time_limit
           /\ \/ ~Tick
              \/ /\ gui'.remaining_time = gui.remaining_time - 1
                 /\ IF gui'.remaining_time = 0
                    THEN /\ ~gui'.timer_active
                         /\ ~gui'.enabled
                         /\ gui'.modal = <<"timed">>
                         /\ Len(gui'.stats_history) = Len(gui.stats_history) + 1
                         /\ SubSeq(gui'.stats_history, 1, Len(gui.stats_history))
                                = gui.stats_history
                         /\ gui'.round_number = gui.round_number
                    ELSE /\ gui'.timer_active
                         /\ gui'.enabled
                         /\ gui'.modal = <<>>
                         /\ gui'.stats_history = gui.stats_history
                         /\ gui'.round_number = gui.round_number
           /\ \/ ~gui.timer_active
              \/ Tick
              \/ /\ gui'.remaining_time = gui.remaining_time
                 /\ gui'.timer_active
                 /\ gui'.stats_history = gui.stats_history
                 /\ gui'.modal = <<>>
           /\ \/ gui.modal # <<"timed">>
              \/ ~DismissDialog
              \/ /\ gui'.round_number = gui.round_number + 1
                 /\ gui'.stats_history = gui.stats_history
       ]_vars
    /\ <>(gui.modal = <<"timed">> /\ gui.remaining_time = 0)

\* C9 happens: a two-minute run has completed after sentences were typed in it.
C9_Witness ==
    /\ gui.modal = <<"timed">>
    /\ gui.time_limit = 4 * TicksPer30s
    /\ gui.remaining_time = 0
    /\ ~gui.timer_active /\ ~gui.enabled
    /\ Len(gui.stats_history) = 1
    /\ run_log # <<>>

RECURSIVE SumLen(_)
\* The characters of the sentences in a sequence of sentences.
SumLen(log) == IF log = <<>> THEN 0 ELSE Len(Head(log)) + SumLen(Tail(log))

C11_TimedSentenceFold ==
    [][ /\ \/ Len(run_log') # Len(run_log) + 1
           \/ /\ gui'.timed_sentences_completed = gui.timed_sentences_completed + 1
              /\ gui'.timed_chars_typed
                     = gui.timed_chars_typed + Len(gui.current_sentence)
              /\ gui'.timed_words_typed
                     = RatAdd(gui.timed_words_typed, Rat(Len(gui.current_sentence), 5))
              /\ gui'.current_sentence \in Bank
              /\ gui'.text = <<>>
              /\ gui'.timer_active /\ gui'.enabled /\ gui'.modal = <<>>
              /\ gui'.remaining_time = gui.remaining_time
              /\ gui'.round_number = gui.round_number
              /\ gui'.stats_history = gui.stats_history
        /\ \/ ~gui.timer_active
           \/ run_log' # run_log
           \/ /\ gui'.timed_sentences_completed = gui.timed_sentences_completed
              /\ gui'.timed_chars_typed = gui.timed_chars_typed
              /\ gui'.timed_words_typed = gui.timed_words_typed
              /\ gui'.current_sentence = gui.current_sentence
    ]_vars

\* C11 happens: two sentences have been completed in a run that is still on, a
\* tick has come in between, and the box is empty for the third.
C11_Witness ==
    /\ gui.timed_mode /\ gui.timer_active /\ gui.modal = <<>>
    /\ Len(run_log) = 2
    /\ gui.timed_sentences_completed = 2
    /\ gui.text = <<>>
    /\ gui.remaining_time < gui.time_limit
    /\ gui.stats_history = <<>>

\* C12: in timed mode a run begins only when "Start Timed Test" is clicked.  An
\* input-change that arrives while the timer is stopped changes nothing but the
\* text the event itself carries, and nothing but the start turns the timer on.
\* The start sets remaining_time to the configured limit, zeroes the character,
\* word and sentence counters, starts the timer, shows a sentence of the bank
\* with an empty box and enables the input.
C12_RunBeginsOnStartOnly ==
    /\ []((Idle(MaxRounds) /\ gui.start_visible) =>
            \A pick \in Bank :
                LET g == start_timed_mode(gui, Now, pick)
                IN  /\ g.timer_active
                    /\ g.time_limit = gui.time_limit
                    /\ g.remaining_time = gui.time_limit
                    /\ g.timed_chars_typed = 0
                    /\ g.timed_words_typed = Rat(0, 1)
                    /\ g.timed_sentences_completed = 0
                    /\ g.current_sentence \in Bank
                    /\ g.text = <<>>
                    /\ g.enabled /\ g.input_visible
                    /\ g.round_number = gui.round_number
                    /\ g.stats_history = gui.stats_history)
    /\ [][ /\ \/ gui' = [gui EXCEPT !.text = gui'.text]
              \/ ~(gui.timed_mode /\ ~gui.timer_active)
              \/ ~TextChanged
           /\ \/ gui.timer_active
              \/ ~gui'.timer_active
              \/ StartTimedMode
       ]_vars

\* C12 happens: a timed run was started and stopped again, text was typed into
\* the box while the timer is off, and the countdown has not moved.
C12_Witness ==
    /\ gui.timed_mode /\ ~gui.timer_active /\ gui.modal = <<>>
    /\ gui.timed_defined
    /\ gui.text # <<>>
    /\ gui.remaining_time = gui.time_limit
    /\ gui.start_time = None

\* C13: in sentence mode start_time is unset once a round is armed (new round,
\* reset, switch to sentence mode, dismissed completion dialog) and stays unset
\* until an input-change; the first input-change captures the time of that
\* event, with no start action; later input-changes of the round do not capture
\* it again: the stored time only falls behind the clock as the clock moves.
C13_ClockCapturedByFirstInput ==
    /\ []((Idle(MaxRounds) /\ ~gui.timed_mode) =>
            \A pick \in Bank :
                /\ new_round(gui, Now, pick).start_time = None
                /\ reset_input(gui, Now, pick).start_time = None
                /\ switch_mode(gui, FALSE, Now, pick).start_time = None)
    /\ []((gui.modal # <<>> /\ ~gui.fault /\ ~gui.timed_mode) =>
            \A pick \in Bank : after_dialog(gui, Now, pick).start_time = None)
    /\ []((Idle(MaxRounds) /\ ~gui.timed_mode /\ gui.start_time = None) =>
            \A text \in Texts, dt \in Drift(gui) :
                on_text_changed([gui EXCEPT !.text = text], Now, Now + dt,
                                gui.current_sentence).start_time = Now)
    /\ [][ \/ gui.timed_mode
           \/ gui'.timed_mode
           \/ /\ \/ gui'.start_time = None
                 \/ gui.start_time # None
                 \/ /\ Elapsed(gui') \in {0, 1}
                    /\ TextChanged
              /\ \/ gui.start_time = None
                 \/ gui'.start_time = None
                 \/ gui.start_time - gui'.start_time \in {0, 1}
       ]_vars

\* C13 happens: a sentence round is being typed, the clock has moved since the
\* first input-change, and a later input-change has been processed (it set the
\* speed label).
C13_Witness ==
    /\ ~gui.timed_mode /\ gui.modal = <<>>
    /\ gui.start_time # None
    /\ Elapsed(gui) = MaxElapsed
    /\ gui.text # <<>>
    /\ gui.wpm_label > 0

\* C14: when the dialog of a completed timed run is dismissed the window is
\* armed for another run: timed mode, the timer stopped, remaining_time equal to
\* the configured limit, the start button shown, the record of the run kept.
\* While the window is armed no step lowers remaining_time, changes a counter of
\* the run or the history, and only "Start Timed Test" turns the timer on.
C14_RearmedAfterTimedRun ==
    [][ /\ \/ gui.modal # <<"timed">>
           \/ ~DismissDialog
           \/ /\ gui'.timed_mode /\ ~gui'.timer_active /\ gui'.modal = <<>>
              /\ gui'.remaining_time = gui'.time_limit
              /\ gui'.time_limit = gui.time_limit
              /\ gui'.start_visible
              /\ gui'.stats_history = gui.stats_history
        /\ \/ ~(gui.timed_mode /\ ~gui.timer_active /\ gui.modal = <<>>)
           \/ /\ gui'.remaining_time = gui.remaining_time
              /\ gui'.stats_history = gui.stats_history
              /\ gui'.round_number = gui.round_number
              /\ \/ /\ ~gui'.timer_active
                    /\ gui'.timed_sentences_completed = gui.timed_sentences_completed
                    /\ gui'.timed_chars_typed = gui.timed_chars_typed
                    /\ gui'.timed_words_typed = gui.timed_words_typed
                 \/ LogStartTimedMode
    ]_vars

\* C14 happens: a timed run in which a sentence was completed has ended, its
\* dialog has been dismissed, and the window waits for the start button with the
\* full limit on the countdown.
C14_Witness ==
    /\ gui.timed_mode /\ ~gui.timer_active /\ gui.modal = <<>>
    /\ Len(gui.stats_history) = 1
    /\ "sentences" \in DOMAIN gui.stats_history[1]
    /\ gui.round_number = 2
    /\ gui.remaining_time = gui.time_limit
    /\ gui.start_visible /\ ~gui.input_visible
    /\ gui.timed_sentences_completed > 0

\* C15: every mode switch ends with the timer stopped, the input box empty and
\* start_time unset, in the armed state of the mode selected: in sentence mode a
\* sentence of the bank is the target and the box is shown and enabled; in timed
\* mode remaining_time is the configured limit and the start button is shown in
\* place of the box.  The timer then stays off until a run is started, so no
\* tick of a run cancelled by the switch is processed.
C15_SwitchArmsSelectedMode ==
    /\ [](Idle(MaxLogRounds) =>
            \A timed_mode \in BOOLEAN, pick \in Bank :
                LET g == switch_mode(gui, timed_mode, Now, pick)
                IN  /\ g.timed_mode = timed_mode
                    /\ ~g.timer_active
                    /\ g.text = <<>>
                    /\ g.start_time = None
                    /\ g.modal = <<>>
                    /\ g.round_number = gui.round_number
                    /\ g.stats_history = gui.stats_history
                    /\ IF timed_mode
                       THEN /\ g.remaining_time = g.time_limit
                            /\ g.start_visible /\ ~g.input_visible
                       ELSE /\ g.current_sentence \in Bank
                            /\ g.enabled /\ g.input_visible
                            /\ ~g.start_visible)
    /\ [][ /\ \/ gui.timer_active
              \/ ~gui'.timer_active
              \/ LogStartTimedMode
           /\ \/ gui.timer_active
              \/ ~LogTick
       ]_vars

\* C15 happens: a timed run was started and the window was then switched back to
\* sentence mode: the timer is off, the box is empty, shown and enabled, and no
\* round has been recorded.
C15_Witness ==
    /\ ~gui.timed_mode /\ gui.timed_defined
    /\ ~gui.timer_active
    /\ gui.text = <<>> /\ gui.start_time = None
    /\ gui.enabled /\ gui.input_visible /\ ~gui.start_visible
    /\ gui.stats_history = <<>>
    /\ gui.modal = <<>>

RECURSIVE LongestCommonPrefix(_, _)
\* The longest sequence that both u and t begin with, characters compared as
\* they are.
LongestCommonPrefix(u, t) ==
    IF u = <<>> \/ t = <<>> \/ Head(u) # Head(t)
    THEN <<>>
    ELSE <<Head(u)>> \o LongestCommonPrefix(Tail(u), Tail(t))

\* C16: the truncation returns exactly the longest common prefix of the text in
\* the box and the target (at a first mismatch at position k the text becomes
\* target[0..k); a text that matches the whole target and goes on is cut to the
\* target; "A" is not "a"), and that is the text the slot leaves in the box,
\* unless it completed a sentence of a timed run, which empties the box.
C16_TruncationIsCommonPrefix ==
    [][ \/ ~Evaluate
        \/ LET prefix == LongestCommonPrefix(gui.text, gui.current_sentence)
           IN  /\ Truncate(gui.text, gui.current_sentence) = prefix
               /\ gui'.text = IF gui.timed_mode /\ prefix = gui.current_sentence
                              THEN <<>>
                              ELSE prefix
    ]_vars

\* C16 happens: a sentence-mode evaluation has left the first letter of a
\* two-letter target in the box, with the progress bar at one half.
C16_Witness ==
    /\ ~gui.timed_mode
    /\ gui.current_sentence = <<"a", "b">>
    /\ gui.text = <<"a">>
    /\ gui.progress = 50
    /\ gui.start_time # None

\* C17: evaluating the box a second time without a change to it gives the same
\* text, the same length of the correct prefix and the same progress as the
\* first evaluation gave, and the same target.  An evaluation changes the target
\* only when it completes a sentence of a timed run.
C17_EvaluationIdempotent ==
    [][ \/ ~Evaluate
        \/ /\ \A pick \in Bank :
                 LET again == on_text_changed(gui', Now, Now, pick)
                 IN  /\ again.text = gui'.text
                     /\ again.progress = gui'.progress
                     /\ again.current_sentence = gui'.current_sentence
                     /\ Len(LongestCommonPrefix(again.text, again.current_sentence))
                            = Len(LongestCommonPrefix(gui'.text, gui'.current_sentence))
           /\ Truncate(gui'.text, gui'.current_sentence) = gui'.text
           /\ \/ gui'.current_sentence = gui.current_sentence
              \/ gui.timed_mode /\ run_log' # run_log
    ]_vars

\* C17 happens: a timed evaluation has cut a text with a wrong second letter to
\* the first letter of its target and set the progress bar.
C17_Witness ==
    /\ gui.timed_mode /\ gui.timer_active
    /\ gui.current_sentence = <<"A", "b">>
    /\ gui.text = <<"A">>
    /\ gui.progress = 50

\* C18: no handler is re-entered: on_text_changed never begins while new_round,
\* reset_input, switch_mode, start_timed_mode, load_new_sentence or another
\* on_text_changed is still executing, the changes the handlers themselves make
\* to the input box included.
C18_NoHandlerReentered == ~gui.reentered

C20_SentenceRecordSpeeds ==
    (gui.modal = <<"sentence">> /\ LastRecord.time > 0) =>
        /\ LastRecord.cps = Rat(Len(gui.current_sentence), LastRecord.time)
        /\ LastRecord.wpm = RatDiv(Rat(Len(gui.current_sentence), 5),
                                   Rat(LastRecord.time, 60))

C22_TerminalWpm ==
    term.pc = "again" =>
        /\ term.wpm = IF term.elapsed_time.n > 0
                      THEN Rat(Len(term.user_input) * 60 * term.elapsed_time.d,
                               5 * term.elapsed_time.n)
                      ELSE Rat(0, 1)
        /\ (term.elapsed_time.n <= 0 \/ term.user_input = <<>>) =>
              term.wpm = Rat(0, 1)
        /\ term.shown_wpm = Format1(term.wpm)

\* C22 happens: a line with a wrong character in it was submitted after half a
\* second or more, and its full length went into the speed.
C22_Witness ==
    /\ term.pc = "again"
    /\ term.surface = "typing_test"
    /\ term.target_sentence = <<"c", "a", "t">>
    /\ term.user_input = <<"c", "b", "t">>
    /\ term.elapsed_time = Rat(3, 2)
    /\ term.wpm = Rat(24, 1)

\* C23: in both terminal tests the accuracy of a submitted line is 100 times the
\* number of positions of the target at which the line has the target's
\* character, divided by the length of the target: it lies between 0 and 100, a
\* position the line does not reach counts as wrong, and what the line has
\* beyond the target's length changes nothing.
C23_TerminalAccuracy ==
    term.pc = "again" =>
        LET target == term.target_sentence
            line == term.user_input
            right == {i \in 1..Len(target) : i <= Len(line) /\ line[i] = target[i]}
            cut == SubSeq(line, 1, Min(Len(line), Len(target)))
        IN  /\ target # <<>>
            /\ term.accuracy = Rat(100 * Cardinality(right), Len(target))
            /\ term.accuracy.n >= 0
            /\ term.accuracy.n <= 100 * term.accuracy.d
            /\ term.accuracy = term_accuracy(term.surface, cut, target)
            /\ term.accuracy = Rat(100, 1) <=> IsPrefix(target, line)
            /\ term.shown_accuracy = Format1(term.accuracy)

\* C23 happens: target "cat", line "cbt": two of three.
C23_Witness ==
    /\ term.pc = "again"
    /\ term.surface = "terminal_typing_test"
    /\ term.target_sentence = <<"c", "a", "t">>
    /\ term.user_input = <<"c", "b", "t">>
    /\ term.accuracy = Rat(200, 3)
    /\ term.shown_accuracy = 667

\* C24: the rating is one of three tiers, fixed by its inputs.  Where accuracy is
\* tracked (the terminal tests) it is Excellent exactly when wpm >= 60 and
\* accuracy >= 95, otherwise Good exactly when wpm >= 40 and accuracy >= 85,
\* otherwise Practicing; in the window's two completion dialogs it is Excellent
\* exactly when wpm >= 60, otherwise Good exactly when wpm >= 40, otherwise
\* Practicing.
C24_PerformanceTier ==
    term.pc = "rated" =>
        LET w == term.wpm
            a == term.accuracy
            tracked == term.rater \in Surfaces
            excellent == w.n >= 60 * w.d /\ (tracked => a.n >= 95 * a.d)
            good == ~excellent /\ w.n >= 40 * w.d /\ (tracked => a.n >= 85 * a.d)
        IN  /\ term.rating \in {"EXCELLENT", "GOOD JOB", "KEEP PRACTICING"}
            /\ term.rating = "EXCELLENT" <=> excellent
            /\ term.rating = "GOOD JOB" <=> good
            /\ term.rating = "KEEP PRACTICING" <=> ~excellent /\ ~good

\* C24 happens: a speed of exactly 60 with an accuracy just under 95 is rated
\* Good by a terminal test.
C24_Witness ==
    /\ term.pc = "rated"
    /\ term.rater = "terminal_typing_test"
    /\ term.wpm = Rat(60, 1)
    /\ term.accuracy = Rat(949, 10)
    /\ term.rating = "GOOD JOB"

\* C25: the statistics history is append-only: every step of the window leaves
\* stats_history as it is or adds one record at its end; no record already in it
\* is removed, moved or changed, and opening or closing the statistics dialog
\* leaves the history as it is.
C25_HistoryAppendOnly ==
    /\ []((gui.modal = <<>> /\ ~gui.fault) =>
            show_results(gui).stats_history = gui.stats_history)
    /\ [][ /\ \/ gui'.stats_history = gui.stats_history
              \/ /\ Len(gui'.stats_history) = Len(gui.stats_history) + 1
                 /\ SubSeq(gui'.stats_history, 1, Len(gui.stats_history))
                        = gui.stats_history
           /\ \/ gui'.stats_view = gui.stats_view
              \/ gui'.stats_history = gui.stats_history
       ]_vars

\* C25 happens: two rounds are in the history and the statistics dialog shows
\* them.
C25_Witness ==
    /\ gui.modal = <<"stats">>
    /\ Len(gui.stats_history) = 2
    /\ ~gui.stats_view.empty
    /\ gui.stats_view.total_rounds = 2

\* C26: right after a completion, of a sentence round or of a timed run, has
\* appended its record, the statistics view returns that record as its most
\* recent one, every field as it was appended; its text shows the record's round
\* number and its speed and characters per second with one decimal.
C26_LastRecordViewedUnchanged ==
    /\ [](gui.stats_history # <<>> =>
            LET view == show_results(gui).stats_view
            IN  /\ ~view.empty
                /\ view.recent # <<>>
                /\ view.recent[Len(view.recent)] = LastRecord
                /\ view.results_text.rounds[Len(view.recent)] =
                       [round |-> LastRecord.round,
                        wpm |-> Format1(LastRecord.wpm),
                        cps |-> Format1(LastRecord.cps)])
    /\ [][ Len(gui'.stats_history) = Len(gui.stats_history) + 1 =>
             LET appended == gui'.stats_history[Len(gui'.stats_history)]
                 view == show_results(gui').stats_view
             IN  /\ appended.round = gui.round_number
                 /\ gui'.modal # <<>>
                 /\ gui'.modal[Len(gui'.modal)] \in {"sentence", "timed"}
                 /\ view.recent[Len(view.recent)] = appended
       ]_vars

\* C26 happens: a timed run has been completed after a sentence round, its
\* dialog dismissed, and the statistics dialog shows the run's record last.
C26_Witness ==
    /\ gui.modal = <<"stats">>
    /\ Len(gui.stats_history) = 2
    /\ Len(gui.stats_view.recent) = 2
    /\ gui.stats_view.recent[2] = LastRecord
    /\ "sentences" \in DOMAIN gui.stats_view.recent[2]
    /\ "sentences" \notin DOMAIN gui.stats_view.recent[1]
    /\ LastRecord.wpm # Rat(0, 1)

C28_TargetFromBank ==
    /\ ~gui.off_bank
    /\ (~gui.timed_mode \/ (gui.timer_active /\ gui.enabled))
          => /\ gui.current_sentence \in Bank
             /\ Len(gui.current_sentence) > 0

\* A timed run in which a sentence was completed, a new target was drawn and
\* text was compared with it.
C28_Witness ==
    /\ gui.timed_mode /\ gui.timer_active /\ gui.enabled
    /\ gui.timed_sentences_completed >= 1
    /\ gui.text # <<>>
    /\ ~gui.fault

\* The window is armed for a sentence round on `target': the target is a
\* sentence of the bank, the box is empty and enabled, the progress bar and the
\* three live values are at zero, and no start time is stored.
ArmedOn(g, target) ==
    /\ ~g.timed_mode
    /\ g.current_sentence = target
    /\ target \in Bank
    /\ g.text = <<>>
    /\ g.enabled
    /\ g.progress = 0
    /\ g.wpm_label = 0
    /\ g.cps_label = 0
    /\ g.time_label = 0
    /\ g.start_time = None
    /\ ~g.timer_active

\* C29: in sentence mode new_round draws a target from the bank, empties the
\* box, puts the progress bar at 0, shows zero for the speed in words, the speed
\* in characters and the elapsed time, forgets the start time and enables the
\* box; so does the new round that follows the dialog of a completed round, and
\* the target of a sentence round changes in no other way.
C29_NewRoundArms ==
    /\ []((Idle(MaxRounds) /\ ~gui.timed_mode) =>
            \A pick \in Bank : ArmedOn(new_round(gui, Now, pick), pick))
    /\ []((gui.modal # <<>> /\ ~gui.fault /\ ~gui.timed_mode
              /\ gui.modal[Len(gui.modal)] = "sentence") =>
            \A pick \in Bank : ArmedOn(after_dialog(gui, Now, pick), pick))
    /\ [][(~gui.timed_mode /\ ~gui'.timed_mode
              /\ gui'.current_sentence # gui.current_sentence)
             => ArmedOn(gui', gui'.current_sentence)]_vars

\* A second round armed after a first one that was typed at a speed above zero:
\* new_round has acted on a window whose live values were not zero.
C29_Witness ==
    /\ ArmedOn(gui, gui.current_sentence)
    /\ gui.modal = <<>>
    /\ gui.round_number = 2
    /\ Len(gui.stats_history) = 1
    /\ gui.stats_history[1].wpm.n > 0
    /\ gui.stats_history[1].time > 0

\* C30: an item of the combo box selected while the window is armed for a timed
\* run (the timer is stopped) puts both the limit and the remaining time at the
\* limit of that item at once, and the run started next ends on the tick whose
\* number is that limit: while it runs, fewer ticks than the limit have been
\* delivered and the remaining time is the limit less the ticks; its completion
\* dialog opens with exactly `limit' ticks delivered and its record carries the
\* limit as its time.
C30_LimitChosenWhileArmed ==
    /\ []((Idle(MaxRounds) /\ gui.timed_mode /\ gui.combo_visible
              /\ ~gui.timer_active) =>
            /\ update_time_limit(gui, "30 seconds").remaining_time
                   = 1 * TicksPer30s
            /\ update_time_limit(gui, "60 seconds").remaining_time
                   = 2 * TicksPer30s
            /\ update_time_limit(gui, "2 minutes").remaining_time
                   = 4 * TicksPer30s
            /\ update_time_limit(gui, "5 minutes").remaining_time
                   = 10 * TicksPer30s
            /\ \A text \in ComboItems :
                  LET g == update_time_limit(gui, text)
                  IN  /\ g.time_limit = g.remaining_time
                      /\ ~g.timer_active
                      /\ g.stats_history = gui.stats_history)
    /\ [](gui.timer_active =>
            /\ gui.ticks < gui.time_limit
            /\ gui.remaining_time = gui.time_limit - gui.ticks)
    /\ [](gui.modal = <<"timed">> =>
            /\ gui.ticks = gui.time_limit
            /\ gui.remaining_time = 0
            /\ LastRecord.time = gui.time_limit)
    /\ [][ /\ (~gui.timer_active /\ gui'.time_limit # gui.time_limit)
              => (gui'.remaining_time = gui'.time_limit /\ ~gui'.timer_active)
           /\ (~gui.timer_active /\ gui'.timer_active)
              => (gui'.time_limit = gui.time_limit /\ gui'.ticks = 0)
       ]_vars

\* A run of the two-minute limit, selected while the window was armed with the
\* limit of one minute, has ended on its last tick after a sentence was typed.
C30_Witness ==
    /\ gui.modal = <<"timed">>
    /\ gui.time_limit = 4 * TicksPer30s
    /\ gui.ticks = 4 * TicksPer30s
    /\ gui.timed_sentences_completed >= 1
    /\ ~gui.fault

\* C31: once a sentence round is completed, another round begins only on a
\* signal from outside.  In a terminal test the round after the play-again
\* question begins exactly when the variable play_again (the answer lower-cased,
\* in terminal_typing_test.py also trimmed) is 'y' or 'yes', its number is the
\* number before plus 1 and its target a sentence of the list; any other answer
\* ends the session with the number unchanged, and the round number changes at
\* no other step.  In the window, while the dialog of a completed sentence round
\* is open the round stays completed (box disabled, target, text, round number
\* and history unchanged) until the dialog is dismissed, and that step arms the
\* round of the next number.
C31_ContinueOnlyOnSignal ==
    /\ []((gui = NoWindow /\ term.pc = "again") =>
            \A answer \in Answers, pick \in TermSentences :
                LET t == play_again(term, answer, pick)
                IN  /\ t.pc \in {"typing", "done"}
                    /\ (t.pc = "typing") <=> (t.play_again \in Yes)
                    /\ t.play_again = Normalised(term.surface, answer)
                    /\ t.pc = "typing" =>
                          /\ t.round_number = term.round_number + 1
                          /\ t.target_sentence = pick
                    /\ t.pc = "done" => t.round_number = term.round_number)
    /\ [][gui = NoWindow =>
            /\ term'.round_number # term.round_number =>
                  /\ term.pc = "again" /\ term'.pc = "typing"
                  /\ term'.play_again \in Yes
                  /\ term'.round_number = term.round_number + 1
            /\ (term.pc = "again" /\ term'.pc = "typing") =>
                  term'.round_number = term.round_number + 1
            /\ term.pc \in {"done", "aborted"} => term' = term
         ]_vars
    /\ [][(term = NoTerminal /\ gui.modal # <<>> /\ ~gui.timed_mode
              /\ gui.modal[Len(gui.modal)] = "sentence") =>
            \/ /\ gui'.modal = gui.modal
               /\ ~gui'.enabled
               /\ gui'.current_sentence = gui.current_sentence
               /\ gui'.text = gui.text
               /\ gui'.round_number = gui.round_number
               /\ gui'.stats_history = gui.stats_history
            \/ /\ gui'.modal = SubSeq(gui.modal, 1, Len(gui.modal) - 1)
               /\ gui'.round_number = gui.round_number + 1
               /\ gui'.stats_history = gui.stats_history
               /\ ArmedOn(gui', gui'.current_sentence)
         ]_vars

\* The second round of terminal_typing_test.py, begun on an answer that the
\* program read as 'y'.
C31_Witness ==
    /\ gui = NoWindow
    /\ term.pc = "typing"
    /\ term.surface = "terminal_typing_test"
    /\ term.round_number = 2
    /\ "play_again" \in DOMAIN term
    /\ term.play_again = <<"y">>

C33_TimedRunCanProgress ==
    (gui.timed_mode /\ gui.modal = <<>> /\ ~gui.fault)
        => (gui.timer_active \/ gui.start_visible)

\* The handler left the round index and the history as they were.
SameCount(g) ==
    /\ g.round_number = gui.round_number
    /\ g.stats_history = gui.stats_history

\* The completion dialogs that are open.
OpenCompletions ==
    Cardinality({i \in 1..Len(gui.modal) : gui.modal[i] \in {"sentence", "timed"}})

\* C34: only a completion changes the round index or the history.  new_round,
\* reset_input, switch_mode, update_time_limit, start_timed_mode, a tick that
\* leaves time on the clock and an input-change that does not complete leave
\* both as they were; the history changes only by the append of one record of
\* the current round together with the opening of its completion dialog, and the
\* round index only by +1 when that dialog is dismissed; and whenever the window
\* waits for an event with no dialog open, the history holds round index - 1
\* records.
C34_OnlyCompletionCounts ==
    /\ []((gui.modal = <<>> /\ ~gui.fault) =>
            Len(gui.stats_history) = gui.round_number - 1)
    /\ [](~gui.fault =>
            Len(gui.stats_history) = gui.round_number - 1 + OpenCompletions)
    /\ [](Idle(MaxRounds) =>
            /\ \A pick \in Bank :
                  /\ SameCount(new_round(gui, Now, pick))
                  /\ SameCount(reset_input(gui, Now, pick))
                  /\ SameCount(switch_mode(gui, TRUE, Now, pick))
                  /\ SameCount(switch_mode(gui, FALSE, Now, pick))
                  /\ SameCount(start_timed_mode(gui, Now, pick))
            /\ \A text \in ComboItems : SameCount(update_time_limit(gui, text))
            /\ (gui.timer_active /\ gui.remaining_time > 1) =>
                  SameCount(update_timed_mode(gui))
            /\ (gui.enabled /\ gui.input_visible) =>
                  \A text \in Texts, pick \in Draws(gui) :
                     LET g == on_text_changed([gui EXCEPT !.text = text],
                                              Now, Now, pick)
                     IN  g.modal = gui.modal => SameCount(g))
    /\ [][ /\ gui'.stats_history # gui.stats_history =>
                /\ Len(gui'.stats_history) = Len(gui.stats_history) + 1
                /\ SubSeq(gui'.stats_history, 1, Len(gui.stats_history))
                       = gui.stats_history
                /\ gui'.stats_history[Len(gui'.stats_history)].round
                       = gui.round_number
                /\ gui'.round_number = gui.round_number
                /\ Len(gui'.modal) = Len(gui.modal) + 1
                /\ gui'.modal[Len(gui'.modal)] \in {"sentence", "timed"}
           /\ gui'.round_number # gui.round_number =>
                /\ gui'.round_number = gui.round_number + 1
                /\ gui'.stats_history = gui.stats_history
                /\ gui.modal # <<>>
                /\ gui.modal[Len(gui.modal)] \in {"sentence", "timed"}
                /\ gui'.modal = SubSeq(gui.modal, 1, Len(gui.modal) - 1)
       ]_vars

\* A timed run was completed and its dialog dismissed: the history holds its
\* record and the round index is 2.
C34_Witness ==
    /\ gui.modal = <<>>
    /\ gui.round_number = 2
    /\ Len(gui.stats_history) = 1
    /\ gui.timed_mode
    /\ "sentences" \in DOMAIN gui.stats_history[1]

\* C35: the timer runs only in timed mode.  In every reachable state a running
\* timer implies timed mode; new_round, reset_input, switch_mode (to either
\* mode) and the tick that ends a run leave the timer stopped; and a step that
\* turns the timer on is a click on "Start Timed Test".
C35_TimerOnlyInTimedMode ==
    /\ [](gui.timer_active => gui.timed_mode)
    /\ [](gui.start_visible => gui.timed_mode)
    /\ [](Idle(MaxRounds) =>
            /\ \A pick \in Bank :
                  /\ ~new_round(gui, Now, pick).timer_active
                  /\ ~reset_input(gui, Now, pick).timer_active
                  /\ ~switch_mode(gui, TRUE, Now, pick).timer_active
                  /\ ~switch_mode(gui, FALSE, Now, pick).timer_active
            /\ (gui.timer_active /\ gui.remaining_time = 1) =>
                  ~update_timed_mode(gui).timer_active)
    /\ []((gui.modal # <<>> /\ ~gui.fault) =>
            \A pick \in Bank : ~after_dialog(gui, Now, pick).timer_active)
    /\ [][ \/ gui.timer_active
           \/ ~gui'.timer_active
           \/ (gui.timed_mode /\ gui.start_visible /\ StartTimedMode)
       ]_vars

\* A timed run was started and then stopped by Reset Input or Start New Round:
\* the window is in timed mode with the timer stopped and the start button
\* still hidden.
C35_Witness ==
    /\ gui.timed_mode
    /\ ~gui.timer_active
    /\ ~gui.start_visible
    /\ gui.input_visible
    /\ gui.modal = <<>>
    /\ gui.stats_history = <<>>
    /\ gui.timed_defined

\* The limits of the four items of the combo box, in ticks.
Limits == {1 * TicksPer30s, 2 * TicksPer30s, 4 * TicksPer30s, 10 * TicksPer30s}

\* C36: whenever no tick handler is suspended in its completion dialog,
\* 1 <= remaining_time <= time_limit and time_limit is one of the four limits
\* of the combo box; a selection that names none of the four leaves time_limit
\* as it was; and while a run goes on (the timer runs before and after the
\* step) remaining_time never increases.
C36_RemainingTimeWithinRun ==
    /\ [](~gui.fault =>
            /\ gui.time_limit \in Limits
            /\ gui.remaining_time <= gui.time_limit
            /\ (\A i \in 1..Len(gui.modal) : gui.modal[i] # "timed")
                  => gui.remaining_time >= 1
            /\ \A text \in {"", "45 seconds", "1 minute"} :
                  update_time_limit(gui, text).time_limit = gui.time_limit)
    /\ [][(gui.timer_active /\ gui'.timer_active)
             => gui'.remaining_time <= gui.remaining_time]_vars

\* C37: while a timed run is Active (the timer runs, the box takes input, no
\* dialog is open) the progress bar shows
\* min(100, floor(100 * len(text) / len(target))) for the text in the box and
\* the current target, in the states that follow a tick as well.
C37_TimedProgressFollowsText ==
    (gui.timed_mode /\ gui.timer_active /\ gui.enabled
        /\ gui.modal = <<>> /\ ~gui.fault)
      => gui.progress =
            Min(100, (100 * Len(gui.text)) \div Len(gui.current_sentence))

\* C38: in the launcher, after the GUI version or the terminal version
\* finishes, control is back in the menu loop of main (the prompt that leads to
\* the menu, or the loop left by a keyboard interrupt); the launcher ends only
\* on choice 3 or a keyboard interrupt; and choice 2 never starts the GUI when
\* PyQt5 was found missing.  Violated: closing the window ends typing_test_gui
\* .main() in sys.exit, and the SystemExit ends the launcher.
C38_VersionsReturnToMenu ==
    /\ [](term.pc = "ended" => term.ended_by \in {"choice 3", "KeyboardInterrupt"})
    /\ [][term.pc \in {"cui", "gui"} =>
              \/ term'.pc = "return_enter"
              \/ term'.pc = "ended" /\ term'.ended_by = "KeyboardInterrupt"]_vars
    /\ []("PyQt5" \in term.missing_deps =>
              /\ term.pc \notin {"gui_enter", "gui"}
              /\ \A i \in 1..Len(term.launched) : term.launched[i] # "gui")

=============================================================================
